---- MODULE Spec2Model ----
(***************************************************************************)
(* zfs-snapshot-operator: the retention engine of pkg/operator, with the   *)
(* helpers of pkg/zfs, pkg/config and pkg/parser it calls.                 *)
(*                                                                         *)
(* Times are Unix seconds (UTC) in -2147483647 .. 2147483647, that is from *)
(* 1901-12-13 20:45:53 to 2038-01-19 03:14:07; the zero time.Time{} of     *)
(* 0001-01-01, which no number of that range reaches, is the value         *)
(* ZeroTime below the range. A period key is a tuple of the numbers the    *)
(* source formats into the key string; the formats are fixed-width         *)
(* and injective, so two keys of one frequency are equal as strings iff    *)
(* they are equal as tuples.                                               *)
(***************************************************************************)
EXTENDS Integers, Sequences, FiniteSets, TLC

(***************************************************************************)
(* Calendar arithmetic of Go's time package (proleptic Gregorian, UTC).    *)
(***************************************************************************)
\* Days since 1970-01-01 of the civil date y-m-d.
DaysFromCivil(y, m, d) ==
    LET yy  == IF m <= 2 THEN y - 1 ELSE y
        era == yy \div 400
        yoe == yy - era * 400
        mp  == IF m > 2 THEN m - 3 ELSE m + 9
        doy == (153 * mp + 2) \div 5 + d - 1
        doe == yoe * 365 + yoe \div 4 - yoe \div 100 + doy
    IN  era * 146097 + doe - 719468

\* time.Date(y, m, d, h, mi, s, 0, time.UTC) as Unix seconds.
Date(y, m, d, h, mi, s) ==
    DaysFromCivil(y, m, d) * 86400 + h * 3600 + mi * 60 + s

\* The civil date [year, month, day] of a day number (t.Date()).
CivilFromDays(days) ==
    LET z   == days + 719468
        era == z \div 146097
        doe == z - era * 146097
        yoe == (doe - doe \div 1460 + doe \div 36524 - doe \div 146096) \div 365
        doy == doe - (365 * yoe + yoe \div 4 - yoe \div 100)
        mp  == (5 * doy + 2) \div 153
        d   == doy - (153 * mp + 2) \div 5 + 1
        m   == IF mp < 10 THEN mp + 3 ELSE mp - 9
        y   == yoe + era * 400 + (IF m <= 2 THEN 1 ELSE 0)
    IN  [year |-> y, month |-> m, day |-> d]

\* time.Time{}: 0001-01-01 00:00:00 UTC, the DateTime of a snapshot whose
\* name holds no timestamp that time.Parse accepts. It is the one number
\* below the Unix seconds of the times, so it is before every one of them
\* and equal to none.
ZeroTime == -2147483647 - 1

\* The day since 1970-01-01 and the second of the day of a time.
DayOf(t)       == IF t = ZeroTime THEN DaysFromCivil(1, 1, 1) ELSE t \div 86400
SecondOfDay(t) == IF t = ZeroTime THEN 0 ELSE t % 86400
HourOf(t)      == SecondOfDay(t) \div 3600
MinuteOf(t)    == (SecondOfDay(t) % 3600) \div 60
SecondOf(t)    == SecondOfDay(t) % 60

\* t.ISOWeek(): the year and week number of the Thursday of t's week.
ISOWeek(t) ==
    LET days == DayOf(t)
        wd   == (days + 3) % 7            \* Monday = 0 ... Sunday = 6
        thu  == days - wd + 3
        y    == CivilFromDays(thu).year
        yday == thu - DaysFromCivil(y, 1, 1)
    IN  [year |-> y, week |-> yday \div 7 + 1]

(***************************************************************************)
(* pkg/zfs: GetTimePeriodKey                                               *)
(***************************************************************************)
\* The weekly key built from the calendar year instead of the ISO year.
GetTimePeriodKey_CalendarYear(t, frequency) ==
    LET c == CivilFromDays(DayOf(t))
    IN  CASE frequency = "frequently" ->
               <<c.year, c.month, c.day, HourOf(t), (MinuteOf(t) \div 15) * 15>>
          [] frequency = "hourly"  -> <<c.year, c.month, c.day, HourOf(t)>>
          [] frequency = "daily"   -> <<c.year, c.month, c.day>>
          [] frequency = "weekly"  -> <<c.year, ISOWeek(t).week>>
          [] frequency = "monthly" -> <<c.year, c.month>>
          [] frequency = "yearly"  -> <<c.year>>
          [] OTHER ->
               <<c.year, c.month, c.day, HourOf(t), MinuteOf(t), SecondOf(t)>>

GetTimePeriodKey(t, frequency) ==
    LET c == CivilFromDays(DayOf(t))
    IN  CASE frequency = "frequently" ->
               <<c.year, c.month, c.day, HourOf(t), (MinuteOf(t) \div 15) * 15>>
          [] frequency = "hourly"  -> <<c.year, c.month, c.day, HourOf(t)>>
          [] frequency = "daily"   -> <<c.year, c.month, c.day>>
          [] frequency = "weekly"  -> <<ISOWeek(t).year, ISOWeek(t).week>>
          [] frequency = "monthly" -> <<c.year, c.month>>
          [] frequency = "yearly"  -> <<c.year>>
          [] OTHER ->
               <<c.year, c.month, c.day, HourOf(t), MinuteOf(t), SecondOf(t)>>

(***************************************************************************)
(* pkg/config                                                              *)
(***************************************************************************)
Frequencies == <<"hourly", "daily", "weekly", "monthly", "yearly">>

\* The Max<Frequency>Snapshots field of the configuration for a frequency.
GetMaxSnapshotsForFrequency(c, frequency) ==
    IF frequency \in DOMAIN c.Max THEN c.Max[frequency] ELSE 0

(***************************************************************************)
(* time.Time values that need not be whole seconds or lie in the range of  *)
(* the snapshot times: the day since 1970-01-01, the second of the day and *)
(* the nanosecond of the second, in UTC.                                   *)
(***************************************************************************)
Time(day, sec, nsec) == [day |-> day, sec |-> sec, nsec |-> nsec]

\* time.Unix(t, 0).
Unix(t) == Time(DayOf(t), SecondOfDay(t), 0)

\* t.Before(u), t.Equal(u) and t.After(u).
Before(t, u) ==
    \/ t.day < u.day
    \/ t.day = u.day /\ t.sec < u.sec
    \/ t.day = u.day /\ t.sec = u.sec /\ t.nsec < u.nsec
Equal(t, u) == t = u
After(t, u) == Before(u, t)

\* The whole hours in j * 2^63 ns, rounded down:
\* 2^63 ns = 2562047 h 2836 s 854 ms 775808 ns.
HoursOfHalfRange(j) ==
    LET ms == j * 854 + (j * 775808) \div 1000000
        s  == j * 2836 + ms \div 1000
    IN  j * 2562047 + s \div 3600

\* time.Duration is an int64 count of nanoseconds, and its product wraps:
\* -Duration(n) * time.Hour is -n hours + k * 2^64 ns for the k that puts it
\* in [-2^63, 2^63) ns.
Wraps(n) ==
    IF HoursOfHalfRange(-1) < n /\ n <= HoursOfHalfRange(1) THEN 0
    ELSE LET k0 == n \div 5124095
         IN  CHOOSE k \in (k0 - 1)..(k0 + 1) :
                 HoursOfHalfRange(2 * k - 1) < n /\ n <= HoursOfHalfRange(2 * k + 1)

\* now.Add(-time.Duration(n) * time.Hour) for a now of whole seconds:
\* 2^64 ns = 5124095 h 2073 s 709 ms 551616 ns.
SubHours(now, n) ==
    LET k    == Wraps(n)
        a    == 551616 * k
        ms   == 709 * k + a \div 1000000
        nsec == (ms % 1000) * 1000000 + (a % 1000000)
        s    == now + 2073 * k + ms \div 1000
        h    == s \div 3600 - n + 5124095 * k
    IN  Time(h \div 24, (h % 24) * 3600 + (s % 3600), nsec)

\* The cutoff with months of 30 days and years of 365 days.
GetMaxSnapshotDate_CalendarLengths(c, frequency, now) ==
    CASE frequency = "hourly"  -> SubHours(now, c.Max["hourly"])
      [] frequency = "daily"   -> SubHours(now, c.Max["daily"] * 24)
      [] frequency = "weekly"  -> SubHours(now, c.Max["weekly"] * 7 * 24)
      [] frequency = "monthly" -> SubHours(now, (c.Max["monthly"] * 30) * 24)
      [] frequency = "yearly"  -> SubHours(now, (c.Max["yearly"] * 365) * 24)
      [] OTHER -> Unix(now)

GetMaxSnapshotDate(c, frequency, now) ==
    CASE frequency = "hourly"  -> SubHours(now, c.Max["hourly"])
      [] frequency = "daily"   -> SubHours(now, c.Max["daily"] * 24)
      [] frequency = "weekly"  -> SubHours(now, c.Max["weekly"] * 7 * 24)
      [] frequency = "monthly" -> SubHours(now, (c.Max["monthly"] * 4) * 7 * 24)
      [] frequency = "yearly"  -> SubHours(now, (c.Max["yearly"] * 52) * 7 * 24)
      [] OTHER -> Unix(now)

\* Config.GetMinSnapshotDate: one fixed period length before now.
GetMinSnapshotDate(frequency, now) ==
    CASE frequency = "hourly"  -> now - 3600
      [] frequency = "daily"   -> now - 24 * 3600
      [] frequency = "weekly"  -> now - 7 * 24 * 3600
      [] frequency = "monthly" -> now - 4 * 7 * 24 * 3600
      [] frequency = "yearly"  -> now - 52 * 7 * 24 * 3600
      [] OTHER -> now

IsPoolAllowed(c, poolName) ==
    c.PoolWhitelist = {} \/ poolName \in c.PoolWhitelist

IsFilesystemAllowed(c, filesystemName) ==
    c.FilesystemWhitelist = {} \/ filesystemName \in c.FilesystemWhitelist

(***************************************************************************)
(* pkg/parser: an entry of `zfs list -j -t snapshot` is a record           *)
(* [Type, Pool, Dataset, SnapshotName]. A snapshot name is the sequence of *)
(* its parts between underscores; a part is a text with no underscore and  *)
(* no timestamp in it, or the digits YYYY-MM-DD_hh:mm:ss of a timestamp    *)
(* (whose one underscore belongs to the part).                             *)
(***************************************************************************)
RecognizedLabels ==
    {"yearly", "monthly", "weekly", "daily", "hourly", "frequently"}

Text(str) == [text |-> str, stamp |-> <<>>]
Stamp(y, m, d, h, mi, sec) == [text |-> "", stamp |-> <<y, m, d, h, mi, sec>>]
IsStamp(part) == part.stamp # <<>>

\* t.Format("2006-01-02_15:04:05").
FormatTime(t) ==
    LET c == CivilFromDays(DayOf(t))
    IN  Stamp(c.year, c.month, c.day, HourOf(t), MinuteOf(t), SecondOf(t))

\* time.Parse("2006-01-02_15:04:05", digits): the time of a date that
\* exists, and the zero time the parser keeps when time.Parse fails.
ParseTime(part) ==
    LET f  == part.stamp
        ny == IF f[2] = 12 THEN f[1] + 1 ELSE f[1]
        nm == IF f[2] = 12 THEN 1 ELSE f[2] + 1
    IN  IF /\ f[2] \in 1..12
           /\ f[3] >= 1
           /\ f[3] <= DaysFromCivil(ny, nm, 1) - DaysFromCivil(f[1], f[2], 1)
           /\ f[4] \in 0..23
           /\ f[5] \in 0..59
           /\ f[6] \in 0..59
        THEN Date(f[1], f[2], f[3], f[4], f[5], f[6])
        ELSE ZeroTime

\* fmt.Sprintf("%s_%s_%s", prefix, formattedTime, frequency).
SnapshotNameOf(prefix, t, label) == <<Text(prefix), FormatTime(t), Text(label)>>

\* The pattern .*_(yearly|monthly|weekly|daily|hourly|frequently)$ : the
\* part after the last underscore, if there is an underscore.
FrequencyOf(name) ==
    IF /\ Len(name) >= 2
       /\ ~IsStamp(name[Len(name)])
       /\ name[Len(name)].text \in RecognizedLabels
    THEN name[Len(name)].text
    ELSE ""

\* The leftmost match of (\d{4}-\d{2}-\d{2}_\d{2}:\d{2}:\d{2}), parsed.
DateTimeOf(name) ==
    LET stamps == { k \in DOMAIN name : IsStamp(name[k]) }
    IN  IF stamps = {} THEN ZeroTime
        ELSE ParseTime(name[CHOOSE k \in stamps : \A j \in stamps : k <= j])

\* One element of the result of ParseSnapshotsJSON: a models.Snapshot.
ParseSnapshot(d) ==
    [PoolName       |-> d.Pool,
     FilesystemName |-> d.Dataset,
     SnapshotName   |-> d.SnapshotName,
     Frequency      |-> FrequencyOf(d.SnapshotName),
     DateTime       |-> DateTimeOf(d.SnapshotName)]

\* The entries the loop of ParseSnapshotsJSON does not skip.
OfTypeSnapshot(data) == { d \in data : d.Type = "SNAPSHOT" }

\* The naming pattern <prefix>_YYYY-MM-DD_HH:MM:SS_<frequency> of the
\* snapshots the operator manages.
MatchesPrefixPattern(name, prefix) ==
    /\ Len(name) = 3
    /\ name[1] = Text(prefix)
    /\ IsStamp(name[2])
    /\ FrequencyOf(name) # ""

\* ParseSnapshotsJSON(output, prefix), as Manager.GetSnapshots calls it: a
\* snapshot whose name does not match the pattern of the configured prefix
\* was not created by the operator and has the empty frequency.
ParseSnapshotsJSON(data, prefix) ==
    { IF MatchesPrefixPattern(d.SnapshotName, prefix)
      THEN ParseSnapshot(d)
      ELSE [ParseSnapshot(d) EXCEPT !.Frequency = ""] : d \in OfTypeSnapshot(data) }

(***************************************************************************)
(* pkg/zfs: Manager                                                        *)
(***************************************************************************)
\* The filter without its frequency clause.
GetSnapshots_AnyFrequency(c, data, poolName, filesystemName, frequency) ==
    { s \in ParseSnapshotsJSON(data, c.SnapshotPrefix) :
        /\ (poolName = "" \/ s.PoolName = poolName)
        /\ (filesystemName = "" \/ s.FilesystemName = filesystemName) }

\* The filter without its filesystem clause.
GetSnapshots_AnyFilesystem(c, data, poolName, filesystemName, frequency) ==
    { s \in ParseSnapshotsJSON(data, c.SnapshotPrefix) :
        /\ (poolName = "" \/ s.PoolName = poolName)
        /\ (frequency = "" \/ s.Frequency = frequency) }

\* The filter of Manager.GetSnapshots over the parsed listing.
GetSnapshots(c, data, poolName, filesystemName, frequency) ==
    { s \in ParseSnapshotsJSON(data, c.SnapshotPrefix) :
        /\ (poolName = "" \/ s.PoolName = poolName)
        /\ (filesystemName = "" \/ s.FilesystemName = filesystemName)
        /\ (frequency = "" \/ s.Frequency = frequency) }

\* Freshness that misses a snapshot taken at the very time of the check.
IsSnapshotRecent_StrictlyOlder(snapshot, frequency, now) ==
    IF snapshot.Frequency = "" \/ snapshot.Frequency # frequency
    THEN FALSE
    ELSE /\ snapshot.DateTime < now
         /\ GetTimePeriodKey(snapshot.DateTime, frequency)
              = GetTimePeriodKey(now, frequency)

\* Freshness by age, as the manager decided it before the period keys.
IsSnapshotRecent_ByAge(snapshot, frequency, now) ==
    IF snapshot.Frequency = "" \/ snapshot.Frequency # frequency
    THEN FALSE
    ELSE snapshot.DateTime > GetMinSnapshotDate(frequency, now)

IsSnapshotRecent(snapshot, frequency, now) ==
    IF snapshot.Frequency = "" \/ snapshot.Frequency # frequency
    THEN FALSE
    ELSE GetTimePeriodKey(snapshot.DateTime, frequency)
           = GetTimePeriodKey(now, frequency)

CanSnapshotBeDeleted(c, snapshot, frequency, now) ==
    IF snapshot.Frequency = "" \/ snapshot.Frequency # frequency
    THEN FALSE
    ELSE Before(Unix(snapshot.DateTime), GetMaxSnapshotDate(c, frequency, now))

\* poolStatus is a function from the pool names that have a status entry.
IsPoolHealthy(poolName, poolStatus) ==
    IF poolName \notin DOMAIN poolStatus THEN FALSE
    ELSE IF poolStatus[poolName].State # "ONLINE" THEN FALSE
    ELSE IF poolStatus[poolName].ErrorCount # "0"
            /\ poolStatus[poolName].ErrorCount # "" THEN FALSE
    ELSE TRUE

\* The dataset `zfs snapshot <fs>@<name>` adds and `zfs destroy` removes.
DatasetOf(snapshot) ==
    [Type |-> "SNAPSHOT", Pool |-> snapshot.PoolName,
     Dataset |-> snapshot.FilesystemName, SnapshotName |-> snapshot.SnapshotName]

(***************************************************************************)
(* pkg/operator: the classification of processFrequency                    *)
(***************************************************************************)
\* The orders sort.Slice (newest first, not stable) can leave a listing in.
SortedNewestFirst(S) ==
    { q \in [1..Cardinality(S) -> S] :
        /\ \A a, b \in DOMAIN q : a # b => q[a] # q[b]
        /\ \A a, b \in DOMAIN q : a < b => q[a].DateTime >= q[b].DateTime }

\* The orders a listing can come in: the parser ranges over a Go map.
ListingOrders(S) ==
    { q \in [1..Cardinality(S) -> S] :
        \A a, b \in DOMAIN q : a # b => q[a] # q[b] }

\* Every snapshot its own keeper: no grouping by period.
IsKeeperForPeriod_Always(snaps, i, frequency) == TRUE

\* periodMap[periodKey] == snapshot: the first of its period in the order.
IsKeeperForPeriod(snaps, i, frequency) ==
    \A j \in 1..(i - 1) :
        GetTimePeriodKey(snaps[j].DateTime, frequency)
          # GetTimePeriodKey(snaps[i].DateTime, frequency)

\* The window without its boundary: a snapshot exactly at the cutoff is out.
IsWithinRetention_StrictlyAfter(c, snapshot, frequency, now) ==
    After(Unix(snapshot.DateTime), GetMaxSnapshotDate(c, frequency, now))

IsWithinRetention(c, snapshot, frequency, now) ==
    LET retentionCutoff == GetMaxSnapshotDate(c, frequency, now)
    IN  \/ After(Unix(snapshot.DateTime), retentionCutoff)
        \/ Equal(Unix(snapshot.DateTime), retentionCutoff)

KeepIndex(c, snaps, i, frequency, now) ==
    /\ IsKeeperForPeriod(snaps, i, frequency)
    /\ IsWithinRetention(c, snaps[i], frequency, now)

RECURSIVE SubSeqWhere(_, _, _)
\* The elements snaps[k], k >= i, whose index is in idx, in order.
SubSeqWhere(snaps, idx, i) ==
    IF i > Len(snaps) THEN <<>>
    ELSE (IF i \in idx THEN <<snaps[i]>> ELSE <<>>)
           \o SubSeqWhere(snaps, idx, i + 1)

SnapshotsToKeep(c, snaps, frequency, now) ==
    SubSeqWhere(snaps,
                { i \in DOMAIN snaps : KeepIndex(c, snaps, i, frequency, now) }, 1)

SnapshotsToDelete(c, snaps, frequency, now) ==
    SubSeqWhere(snaps,
                { i \in DOMAIN snaps : ~KeepIndex(c, snaps, i, frequency, now) }, 1)

\* Whether the loop over the listing finds a snapshot of the current period.
HasRecentSnapshot(snaps, frequency, now) ==
    \E i \in DOMAIN snaps : IsSnapshotRecent(snaps[i], frequency, now)

\* The snapshot processFrequency creates when it found no recent one.
NewSnapshot(c, pool, frequency, now) ==
    [PoolName       |-> pool.PoolName,
     FilesystemName |-> pool.FilesystemName,
     SnapshotName   |-> SnapshotNameOf(c.SnapshotPrefix, now, frequency),
     DateTime       |-> now,
     Frequency      |-> frequency]

(***************************************************************************)
(* The state.                                                              *)
(*   datasets    the snapshot datasets that exist on the host              *)
(*   lockFile    whether the file at LockFilePath exists                   *)
(*   faults      how many collaborator and file-system calls have failed   *)
(*   clock       what time.Now() returns                                   *)
(*   cfg         the configuration, loaded once at process start           *)
(*   poolList    what GetPools returns, in the order it returns it         *)
(*   zpoolStatus what GetPoolStatus returns                                *)
(*   held        the snapshot datasets whose `zfs destroy` always fails    *)
(*               (a user hold, a clone that depends on the snapshot)       *)
(*   op          per operator process: the Operator fields and the locals  *)
(*               and position of Run / processPool / processFrequency      *)
(*   hist        per operator process: the collaborator calls it issued    *)
(***************************************************************************)
VARIABLES datasets, lockFile, faults, clock, cfg, poolList, zpoolStatus, held,
          op, hist

vars == <<datasets, lockFile, faults, clock, cfg, poolList, zpoolStatus, held,
          op, hist>>
env  == <<clock, cfg, poolList, zpoolStatus, held>>

Inst == {1, 2}

\* Bounds of the model: the snapshots that exist initially, and the calls
\* (listing, create, delete, lock file, startup) that fail in a behaviour.
MaxSnapshots == 3
MaxFaults == 2

\* A call that fails.
Fault == faults < MaxFaults /\ faults' = faults + 1
NoFault == UNCHANGED faults

Now0 == Date(2026, 1, 31, 13, 0, 5)

\* The entry of the snapshot <fs>@<name>.
DatasetNamed(pool, fs, name) ==
    [Type |-> "SNAPSHOT", Pool |-> pool, Dataset |-> fs, SnapshotName |-> name]

Dataset(pool, fs, prefix, t, label) ==
    DatasetNamed(pool, fs, SnapshotNameOf(prefix, t, label))

\* Snapshots of tank/data around Now0: hourly ones older than a day, of the
\* previous hour (twice) and of the current hour, monthly ones of the
\* current month (older than 28 days) and of the previous month, and two
\* manual ones: manual_2026-01-31_13:00:01_before-upgrade, whose name ends
\* in no frequency, and manual_2026-01-30_09:00:00_pre_hourly, whose name
\* ends in one but is not of the operator's pattern.
TankCandidates ==
    { Dataset("tank", "tank/data", "autosnap", Date(2026, 1, 30, 10, 0, 0), "hourly"),
      Dataset("tank", "tank/data", "autosnap", Date(2026, 1, 31, 12, 0, 30), "hourly"),
      Dataset("tank", "tank/data", "autosnap", Date(2026, 1, 31, 12, 40, 0), "hourly"),
      Dataset("tank", "tank/data", "autosnap", Date(2026, 1, 31, 13, 0, 0), "hourly"),
      Dataset("tank", "tank/data", "autosnap", Date(2026, 1, 1, 0, 0, 0), "monthly"),
      Dataset("tank", "tank/data", "autosnap", Date(2025, 12, 1, 0, 0, 0), "monthly"),
      Dataset("tank", "tank/data", "manual", Date(2026, 1, 31, 13, 0, 1), "before-upgrade"),
      DatasetNamed("tank", "tank/data",
                   <<Text("manual"), Stamp(2026, 1, 30, 9, 0, 0), Text("pre"),
                     Text("hourly")>>) }

OtherCandidates ==
    { Dataset("usb", "usb/private", "autosnap", Date(2026, 1, 30, 10, 0, 0), "hourly"),
      Dataset("tank", "tank/data/sub", "autosnap", Date(2026, 1, 30, 10, 0, 0), "hourly") }

\* The time of a Run on the last day of ISO week 2026-W01, which began on
\* 2025-12-29.
NowWeek == Date(2026, 1, 4, 10, 0, 0)

\* Weekly snapshots of tank/data around NowWeek: one of week 2025-W51, one of
\* 2025-W52 taken exactly seven days before NowWeek, two days of 2026-W01 on
\* both sides of the new year, and two whose names carry dates that do not
\* exist: autosnap_2026-02-30_00:00:00_weekly and
\* autosnap_2026-02-31_00:00:00_weekly.
WeekCandidates ==
    { Dataset("tank", "tank/data", "autosnap", Date(2025, 12, 21, 10, 0, 0), "weekly"),
      Dataset("tank", "tank/data", "autosnap", Date(2025, 12, 28, 10, 0, 0), "weekly"),
      Dataset("tank", "tank/data", "autosnap", Date(2025, 12, 29, 8, 0, 0), "weekly"),
      Dataset("tank", "tank/data", "autosnap", Date(2026, 1, 1, 0, 0, 0), "weekly"),
      DatasetNamed("tank", "tank/data",
                   <<Text("autosnap"), Stamp(2026, 2, 30, 0, 0, 0), Text("weekly")>>),
      DatasetNamed("tank", "tank/data",
                   <<Text("autosnap"), Stamp(2026, 2, 31, 0, 0, 0), Text("weekly")>>) }

PoolEntry(pool, fs) == [PoolName |-> pool, FilesystemName |-> fs]

DefaultMax ==
    [hourly |-> 24, daily |-> 7, weekly |-> 4, monthly |-> 12, yearly |-> 3]
OneEachMax ==
    [hourly |-> 1, daily |-> 1, weekly |-> 1, monthly |-> 1, yearly |-> 1]
HourlyOffMax ==
    [hourly |-> 0, daily |-> 7, weekly |-> 4, monthly |-> 12, yearly |-> 3]
\* MAX_YEARLY_SNAPSHOTS=300: getEnvAsInt takes any integer.
ManyYearlyMax ==
    [hourly |-> 24, daily |-> 7, weekly |-> 4, monthly |-> 12, yearly |-> 300]
ManyYearlyHourlyOffMax ==
    [hourly |-> 0, daily |-> 7, weekly |-> 4, monthly |-> 12, yearly |-> 300]

Config(dryRun, locking, maxDeletions, max, pools, filesystems) ==
    [DryRun |-> dryRun, EnableLocking |-> locking,
     MaxDeletionsPerRun |-> maxDeletions, Max |-> max,
     PoolWhitelist |-> pools, FilesystemWhitelist |-> filesystems,
     SnapshotPrefix |-> "autosnap"]

\* models.PoolStatus as ParsePoolStatusJSON fills it: state, data error
\* count and the read, write and checksum counters of the root vdev.
PoolStatus(state, errorCount, readErrors, writeErrors, checksumErrors) ==
    [State |-> state, ErrorCount |-> errorCount, ReadErrors |-> readErrors,
     WriteErrors |-> writeErrors, ChecksumErrors |-> checksumErrors]

Healthy  == PoolStatus("ONLINE", "0", "0", "0", "0")
Degraded == PoolStatus("DEGRADED", "0", "0", "0", "0")
Errored  == PoolStatus("ONLINE", "2", "0", "0", "0")
ReadErrored == PoolStatus("ONLINE", "0", "5", "0", "0")

NoName == <<>>

IdleOp ==
    [pc |-> "idle", deletionCount |-> 0, creationCount |-> 0, errors |-> 0,
     result |-> "none", now |-> 0, poolIdx |-> 0, freqIdx |-> 0,
     snapshots |-> <<>>, toKeep |-> <<>>, toDelete |-> <<>>, recent |-> FALSE,
     delIdx |-> 0, deferRelease |-> FALSE]

NoHist ==
    [passLog |-> <<>>, passResult |-> "none", passListed |-> 0,
     passEligible |-> 0, touched |-> {}, touchedFs |-> {}, processed |-> {},
     eligible |-> 0, deleteCalls |-> 0, deleteFailures |-> 0,
     simDeletes |-> 0, createCalls |-> 0,
     simCreates |-> 0, startupOk |-> FALSE, before |-> {},
     passListing |-> {}, createFailedIn |-> {}, listFailedIn |-> {},
     passes |-> {}, repeated |-> {},
     deletedAfterFailure |-> {},
     createdMarker |-> FALSE, markerAtStart |-> FALSE, startups |-> 0,
     attempted |-> {}, createdEarlier |-> {}, cleanEarlier |-> FALSE,
     rerun |-> FALSE, again |-> FALSE]

(***************************************************************************)
(* Positions of a process: idle (before Run), stat and mklock (the two     *)
(* steps of acquireLock), startup, pool (head of the loop over pools),     *)
(* freq (head of processFrequency), create, delete (the deletion loop),    *)
(* cleanup (the loop of a disabled frequency), release (the deferred       *)
(* releaseLock), done, off (a process that is never started).              *)
(***************************************************************************)
CurPool(o) == poolList[o.poolIdx]
CurFreq(o) == Frequencies[o.freqIdx]

Event(o, kind, name, ok) ==
    [op |-> kind, pool |-> CurPool(o).PoolName, fs |-> CurPool(o).FilesystemName,
     freq |-> CurFreq(o), name |-> name, ok |-> ok]

Logged(h, o, kind, name, ok) ==
    [h EXCEPT !.passLog = Append(@, Event(o, kind, name, ok)),
              !.touched = @ \cup {CurPool(o).PoolName},
              !.touchedFs = @ \cup {CurPool(o)}]

\* The pass a process is in: the indices of its pool entry and frequency.
PassKey(o) == <<o.poolIdx, o.freqIdx>>

\* A call of Manager.CreateSnapshot and whether it succeeded.
CreateCalled(h, o, ok) ==
    [h EXCEPT !.createCalls = @ + 1,
              !.attempted = @ \cup {PassKey(o)},
              !.createFailedIn = IF ok THEN @ ELSE @ \cup {PassKey(o)}]

\* A call of Manager.DeleteSnapshot.
DeleteCalled(h, o) ==
    [h EXCEPT !.deleteCalls = @ + 1,
              !.deletedAfterFailure =
                  IF h.createFailedIn # {} THEN @ \cup {PassKey(o)} ELSE @]

ClearLocals(o) ==
    [o EXCEPT !.snapshots = <<>>, !.toKeep = <<>>, !.toDelete = <<>>,
              !.recent = FALSE, !.delIdx = 0]

\* processFrequency returns: the loop of processPool goes on, and after the
\* last frequency processPool returns to the loop of Run.
NextFrequency(o) ==
    IF o.freqIdx < Len(Frequencies)
    THEN [ClearLocals(o) EXCEPT !.pc = "freq", !.freqIdx = @ + 1]
    ELSE [ClearLocals(o) EXCEPT !.pc = "pool", !.freqIdx = 0, !.poolIdx = @ + 1]

PassReturned(h, o, res) ==
    [h EXCEPT !.passResult = res,
              !.processed = IF o.freqIdx = Len(Frequencies)
                            THEN @ \cup {o.poolIdx} ELSE @]

\* The check at the head of the deletion loop.
DeletionLimitReached(c, o) == o.deletionCount >= c.MaxDeletionsPerRun

\* The head of the deletion loop, with o.delIdx the next index to look at.
DeletionLoopHead(o) ==
    IF o.delIdx > Len(o.toDelete) \/ DeletionLimitReached(cfg, o)
    THEN NextFrequency(o)
    ELSE [o EXCEPT !.pc = "delete"]

\* A disabled frequency that is skipped without the cleanup.
CleanupLoopHead_Skip(o) == NextFrequency(o)

\* The head of the loop over the snapshots of a disabled frequency.
CleanupLoopHead(o) ==
    IF o.delIdx > Len(o.snapshots)
    THEN NextFrequency(o)
    ELSE [o EXCEPT !.pc = "cleanup"]

\* The release deferred before the lock is acquired: it runs on every return.
Returned_AlwaysRelease(o, res) ==
    [o EXCEPT !.result = res, !.pc = "release"]

\* Run returns res; a deferred releaseLock runs before it is done.
Returned(o, res) ==
    [o EXCEPT !.result = res,
              !.pc = IF o.deferRelease THEN "release" ELSE "done"]

(***************************************************************************)
(* Run                                                                     *)
(***************************************************************************)
\* Run before the operator had a lock.
RunEntry_NoLock(c) == "startup"

\* Where Run starts: acquireLock if locking is enabled.
RunEntry(c) == IF c.EnableLocking THEN "stat" ELSE "startup"

Run(i) ==
    /\ op[i].pc = "idle"
    /\ op' = [op EXCEPT ![i].pc = RunEntry(cfg)]
    /\ hist' = [hist EXCEPT ![i] =
                  [NoHist EXCEPT !.before = datasets,
                                 !.markerAtStart = lockFile,
                                 !.createdEarlier = hist[i].createdEarlier,
                                 !.cleanEarlier = hist[i].cleanEarlier,
                                 !.rerun = hist[i].rerun,
                                 !.again = hist[i].again]]
    /\ UNCHANGED <<datasets, lockFile, faults, env>>

\* acquireLock: os.Stat(lockPath).
acquireLockStat(i) ==
    /\ op[i].pc = "stat"
    /\ op' = [op EXCEPT ![i] = IF lockFile THEN Returned(@, "err")
                               ELSE [@ EXCEPT !.pc = "mklock"]]
    /\ UNCHANGED <<datasets, lockFile, faults, env, hist>>

\* acquireLock: os.Create(lockPath) and the write of the PID. os.Create
\* opens with O_CREATE|O_TRUNC: it succeeds on an existing file.
acquireLockCreate(i) ==
    /\ op[i].pc = "mklock"
    /\ \E outcome \in {"ok", "createFailed", "writeFailed"} :
         /\ IF outcome = "ok" THEN NoFault ELSE Fault
         /\ lockFile' = IF outcome = "createFailed" THEN lockFile ELSE TRUE
         /\ op' = [op EXCEPT ![i] =
                     IF outcome = "ok"
                     THEN [@ EXCEPT !.pc = "startup", !.deferRelease = TRUE]
                     ELSE Returned(@, "err")]
         /\ hist' = [hist EXCEPT ![i].createdMarker =
                       @ \/ outcome # "createFailed"]
    /\ UNCHANGED <<datasets, env>>

\* releaseLock: os.Remove(lockPath), deferred by Run. A failed Remove is
\* only logged and leaves the file as it is.
releaseLock(i) ==
    /\ op[i].pc = "release"
    /\ \/ NoFault /\ lockFile' = FALSE
       \/ Fault /\ lockFile' = lockFile
    /\ op' = [op EXCEPT ![i].pc = "done", ![i].deferRelease = FALSE]
    /\ UNCHANGED <<datasets, env, hist>>

\* A startup error that is logged while the Run goes on to the pools.
OnStartupError_Continue(o) ==
    [o EXCEPT !.pc = "pool", !.poolIdx = 1, !.now = clock]

\* GetVersion, GetPoolStatus or GetPools returned an error: Run returns it.
OnStartupError(o) == Returned(o, "err")

\* The counter reset, time.Now(), GetVersion, GetPoolStatus and GetPools.
RunStartup(i) ==
    /\ op[i].pc = "startup"
    /\ \E outcome \in {"ok", "versionFailed", "statusFailed", "poolsFailed"} :
         /\ IF outcome = "ok" THEN NoFault ELSE Fault
         /\ op' = [op EXCEPT ![i] =
                     IF outcome = "ok"
                     THEN [@ EXCEPT !.pc = "pool", !.poolIdx = 1, !.now = clock,
                                    !.deletionCount = 0, !.creationCount = 0]
                     ELSE OnStartupError([@ EXCEPT !.deletionCount = 0,
                                                   !.creationCount = 0])]
         /\ hist' = [hist EXCEPT ![i].startupOk = (outcome = "ok"),
                                  ![i].startups = @ + 1]
    /\ UNCHANGED <<datasets, lockFile, env>>

\* Logging the errors of the pools without returning them.
RunResult_AlwaysNil(o) == "ok"

\* The end of the loop over pools.
RunResult(o) == IF o.errors > 0 THEN "err" ELSE "ok"

RunFinish(i) ==
    /\ op[i].pc = "pool"
    /\ op[i].poolIdx > Len(poolList)
    /\ op' = [op EXCEPT ![i] = Returned(@, RunResult(@))]
    /\ UNCHANGED <<datasets, lockFile, faults, env, hist>>

(***************************************************************************)
(* processPool, up to the loop over the frequencies                        *)
(***************************************************************************)
\* processPool without the health gate.
PoolVerdict_NoHealthGate(c, pool, poolStatus) ==
    IF ~IsPoolAllowed(c, pool.PoolName) THEN "skip"
    ELSE IF pool.FilesystemName = "" THEN "root"
    ELSE IF ~IsFilesystemAllowed(c, pool.FilesystemName) THEN "skip"
    ELSE "process"

\* The health gate ahead of the pool allow-list.
PoolVerdict_HealthFirst(c, pool, poolStatus) ==
    IF ~IsPoolHealthy(pool.PoolName, poolStatus) THEN "unhealthy"
    ELSE IF ~IsPoolAllowed(c, pool.PoolName) THEN "skip"
    ELSE IF pool.FilesystemName = "" THEN "root"
    ELSE IF ~IsFilesystemAllowed(c, pool.FilesystemName) THEN "skip"
    ELSE "process"

PoolVerdict(c, pool, poolStatus) ==
    IF ~IsPoolAllowed(c, pool.PoolName) THEN "skip"
    ELSE IF ~IsPoolHealthy(pool.PoolName, poolStatus) THEN "unhealthy"
    ELSE IF pool.FilesystemName = "" THEN "root"
    ELSE IF ~IsFilesystemAllowed(c, pool.FilesystemName) THEN "skip"
    ELSE "process"

processPool(i) ==
    /\ op[i].pc = "pool"
    /\ op[i].poolIdx <= Len(poolList)
    /\ LET o == op[i]
           verdict == PoolVerdict(cfg, CurPool(o), zpoolStatus)
       IN  /\ op' = [op EXCEPT ![i] =
                       CASE verdict = "process" ->
                              [o EXCEPT !.pc = "freq", !.freqIdx = 1]
                         [] verdict = "unhealthy" ->
                              [o EXCEPT !.errors = @ + 1, !.poolIdx = @ + 1]
                         [] OTHER -> [o EXCEPT !.poolIdx = @ + 1]]
           /\ hist' = [hist EXCEPT ![i].processed =
                         IF verdict = "process" THEN @ ELSE @ \cup {o.poolIdx}]
    /\ UNCHANGED <<datasets, lockFile, faults, env>>

(***************************************************************************)
(* processFrequency                                                        *)
(***************************************************************************)
\* Deleting right after the classification, as the operator did before the
\* create-first order.
AfterClassification_DeleteFirst(o) == DeletionLoopHead(o)

\* Where processFrequency goes once it has classified the listing.
AfterClassification(o) == [o EXCEPT !.pc = "create"]

\* GetSnapshots and, for an enabled frequency, the sort, the grouping by
\* period, the classification and the search for a recent snapshot.
processFrequencyList(i) ==
    /\ op[i].pc = "freq"
    /\ LET o == op[i]
           frequency == CurFreq(o)
           maxCount == GetMaxSnapshotsForFrequency(cfg, frequency)
           listed == GetSnapshots(cfg, datasets, CurPool(o).PoolName,
                                  CurPool(o).FilesystemName, frequency)
           h0 == [hist[i] EXCEPT !.passLog = <<>>, !.passResult = "running",
                                 !.passListed = 0, !.passEligible = 0,
                                 !.passListing = {},
                                 !.passes = @ \cup {PassKey(o)},
                                 !.repeated = IF PassKey(o) \in hist[i].passes
                                              THEN @ \cup {PassKey(o)} ELSE @]
       IN  \/ \* GetSnapshots fails: processFrequency returns the error
              /\ Fault
              /\ op' = [op EXCEPT ![i] = NextFrequency(o)]
              /\ hist' = [hist EXCEPT ![i] =
                            PassReturned(
                              [Logged(h0, o, "list", NoName, FALSE)
                                 EXCEPT !.listFailedIn = @ \cup {PassKey(o)}],
                              o, "err")]
           \/ /\ maxCount = 0
              /\ NoFault
              /\ \E snaps \in ListingOrders(listed) :
                   LET o1 == CleanupLoopHead([o EXCEPT !.snapshots = snaps, !.delIdx = 1])
                       h1 == [Logged(h0, o, "list", NoName, TRUE)
                                EXCEPT !.eligible = @ + Len(snaps),
                                       !.passListed = Len(snaps),
                                       !.passEligible = Len(snaps),
                                       !.passListing = listed]
                   IN  /\ op' = [op EXCEPT ![i] = o1]
                       /\ hist' = [hist EXCEPT ![i] =
                                     IF o1.pc = "cleanup" THEN h1
                                     ELSE PassReturned(h1, o, "ok")]
           \/ /\ maxCount # 0
              /\ NoFault
              /\ \E snaps \in SortedNewestFirst(listed) :
                   LET keep == SnapshotsToKeep(cfg, snaps, frequency, o.now)
                       del  == SnapshotsToDelete(cfg, snaps, frequency, o.now)
                   IN  /\ op' = [op EXCEPT ![i] =
                                   AfterClassification(
                                     [o EXCEPT !.snapshots = snaps, !.toKeep = keep,
                                               !.toDelete = del, !.delIdx = 1,
                                               !.recent = HasRecentSnapshot(snaps, frequency, o.now)])]
                       /\ hist' = [hist EXCEPT ![i] =
                                     [Logged(h0, o, "list", NoName, TRUE)
                                        EXCEPT !.eligible = @ + Len(del),
                                               !.passListed = Len(snaps),
                                               !.passEligible = Len(del),
                                               !.passListing = listed]]
    /\ UNCHANGED <<datasets, lockFile, env>>

IsDryRun_Ignored(c) == FALSE

\* Whether the collaborator is left alone (config.DryRun).
IsDryRun(c) == c.DryRun

\* Logging the error and going on with the deletions.
OnCreateError_Continue(o) == DeletionLoopHead(o)

\* A create error that ends the processing of the pool entry.
OnCreateError_LeavePool(o) ==
    [ClearLocals(o) EXCEPT !.pc = "pool", !.freqIdx = 0, !.poolIdx = @ + 1]

\* CreateSnapshot returned an error: processFrequency returns it.
OnCreateError(o) == NextFrequency(o)

\* The creation step: a recent snapshot was found, or one is created.
processFrequencyCreate(i) ==
    /\ op[i].pc = "create"
    /\ LET o == op[i]
           new == NewSnapshot(cfg, CurPool(o), CurFreq(o), o.now)
           done(o1, h1) ==
               /\ op' = [op EXCEPT ![i] = DeletionLoopHead(o1)]
               /\ hist' = [hist EXCEPT ![i] =
                             IF DeletionLoopHead(o1).pc = "delete" THEN h1
                             ELSE PassReturned(h1, o, "ok")]
       IN  \/ /\ o.recent
              /\ NoFault
              /\ done(o, Logged(hist[i], o, "recent", NoName, TRUE))
              /\ UNCHANGED datasets
           \/ /\ ~o.recent
              /\ IsDryRun(cfg)
              /\ NoFault
              /\ done([o EXCEPT !.creationCount = @ + 1],
                      [Logged(hist[i], o, "simCreate", new.SnapshotName, TRUE)
                         EXCEPT !.simCreates = @ + 1])
              /\ UNCHANGED datasets
           \/ \* CreateSnapshot succeeds
              /\ ~o.recent
              /\ ~IsDryRun(cfg)
              /\ DatasetOf(new) \notin datasets
              /\ NoFault
              /\ datasets' = datasets \cup {DatasetOf(new)}
              /\ done([o EXCEPT !.creationCount = @ + 1],
                      CreateCalled(Logged(hist[i], o, "create", new.SnapshotName, TRUE),
                                   o, TRUE))
           \/ \* CreateSnapshot fails: `zfs snapshot` exits non-zero for a
              \* dataset that exists already, or for another reason
              /\ ~o.recent
              /\ ~IsDryRun(cfg)
              /\ IF DatasetOf(new) \in datasets THEN NoFault \/ Fault ELSE Fault
              /\ UNCHANGED datasets
              /\ LET o1 == OnCreateError(o)
                     h1 == CreateCalled(
                               Logged(hist[i], o, "create", new.SnapshotName, FALSE),
                               o, FALSE)
                 IN  /\ op' = [op EXCEPT ![i] = o1]
                     /\ hist' = [hist EXCEPT ![i] =
                                   IF o1.pc = "delete" THEN h1
                                   ELSE PassReturned(h1, o, "err")]
    /\ UNCHANGED <<lockFile, env>>

\* A failed delete call counted like a successful one.
OnDeleteError_Counted(o) == [o EXCEPT !.deletionCount = @ + 1]

\* DeleteSnapshot returned an error: it is logged, the counter stays and
\* the loop goes on.
OnDeleteError(o) == o

\* One iteration of the deletion loop (the limit was checked at its head).
processFrequencyDelete(i) ==
    /\ op[i].pc = "delete"
    /\ LET o == op[i]
           snapshot == o.toDelete[o.delIdx]
           step(o1, h1) ==
               LET o2 == DeletionLoopHead([o1 EXCEPT !.delIdx = @ + 1])
               IN  /\ op' = [op EXCEPT ![i] = o2]
                   /\ hist' = [hist EXCEPT ![i] =
                                 IF o2.pc = "delete" THEN h1
                                 ELSE PassReturned(h1, o, "ok")]
       IN  \/ /\ IsDryRun(cfg)
              /\ NoFault
              /\ UNCHANGED datasets
              /\ step([o EXCEPT !.deletionCount = @ + 1],
                      [Logged(hist[i], o, "simDelete", snapshot.SnapshotName, TRUE)
                         EXCEPT !.simDeletes = @ + 1])
           \/ \* DeleteSnapshot succeeds
              /\ ~IsDryRun(cfg)
              /\ DatasetOf(snapshot) \in datasets \ held
              /\ NoFault
              /\ datasets' = datasets \ {DatasetOf(snapshot)}
              /\ step([o EXCEPT !.deletionCount = @ + 1],
                      DeleteCalled(
                        Logged(hist[i], o, "delete", snapshot.SnapshotName, TRUE), o))
           \/ \* DeleteSnapshot fails: `zfs destroy` exits non-zero for a
              \* snapshot that is held or that no longer exists
              /\ ~IsDryRun(cfg)
              /\ DatasetOf(snapshot) \notin datasets \ held
              /\ NoFault
              /\ UNCHANGED datasets
              /\ step(OnDeleteError(o),
                      [DeleteCalled(
                         Logged(hist[i], o, "delete", snapshot.SnapshotName, FALSE), o)
                         EXCEPT !.deleteFailures = @ + 1])
           \/ \* DeleteSnapshot fails
              /\ ~IsDryRun(cfg)
              /\ Fault
              /\ UNCHANGED datasets
              /\ step(OnDeleteError(o),
                      [DeleteCalled(
                         Logged(hist[i], o, "delete", snapshot.SnapshotName, FALSE), o)
                         EXCEPT !.deleteFailures = @ + 1])
    /\ UNCHANGED <<lockFile, env>>

\* One iteration of the loop over the snapshots of a disabled frequency.
processFrequencyCleanup(i) ==
    /\ op[i].pc = "cleanup"
    /\ LET o == op[i]
           snapshot == o.snapshots[o.delIdx]
           step(o1, h1) ==
               LET o2 == CleanupLoopHead([o1 EXCEPT !.delIdx = @ + 1])
               IN  /\ op' = [op EXCEPT ![i] = o2]
                   /\ hist' = [hist EXCEPT ![i] =
                                 IF o2.pc = "cleanup" THEN h1
                                 ELSE PassReturned(h1, o, "ok")]
       IN  \/ /\ IsDryRun(cfg)
              /\ NoFault
              /\ UNCHANGED datasets
              /\ step(o, [Logged(hist[i], o, "simDelete", snapshot.SnapshotName, TRUE)
                            EXCEPT !.simDeletes = @ + 1])
           \/ \* DeleteSnapshot succeeds
              /\ ~IsDryRun(cfg)
              /\ DatasetOf(snapshot) \in datasets \ held
              /\ NoFault
              /\ datasets' = datasets \ {DatasetOf(snapshot)}
              /\ step([o EXCEPT !.deletionCount = @ + 1],
                      DeleteCalled(
                        Logged(hist[i], o, "delete", snapshot.SnapshotName, TRUE), o))
           \/ \* DeleteSnapshot fails: `zfs destroy` exits non-zero for a
              \* snapshot that is held or that no longer exists
              /\ ~IsDryRun(cfg)
              /\ DatasetOf(snapshot) \notin datasets \ held
              /\ NoFault
              /\ UNCHANGED datasets
              /\ step(OnDeleteError(o),
                      [DeleteCalled(
                         Logged(hist[i], o, "delete", snapshot.SnapshotName, FALSE), o)
                         EXCEPT !.deleteFailures = @ + 1])
           \/ \* DeleteSnapshot fails
              /\ ~IsDryRun(cfg)
              /\ Fault
              /\ UNCHANGED datasets
              /\ step(OnDeleteError(o),
                      [DeleteCalled(
                         Logged(hist[i], o, "delete", snapshot.SnapshotName, FALSE), o)
                         EXCEPT !.deleteFailures = @ + 1])
    /\ UNCHANGED <<lockFile, env>>

Step(i) ==
    \/ Run(i)
    \/ acquireLockStat(i)
    \/ acquireLockCreate(i)
    \/ releaseLock(i)
    \/ RunStartup(i)
    \/ RunFinish(i)
    \/ processPool(i)
    \/ processFrequencyList(i)
    \/ processFrequencyCreate(i)
    \/ processFrequencyDelete(i)
    \/ processFrequencyCleanup(i)

Next == \E i \in Inst : Step(i)

(***************************************************************************)
(* Initial states                                                          *)
(***************************************************************************)
SmallSubsets(S) == { T \in SUBSET S : Cardinality(T) <= MaxSnapshots }

\* One operator process; the second one is never started.
OneProcess == [i \in Inst |-> IF i = 1 THEN IdleOp ELSE [IdleOp EXCEPT !.pc = "off"]]

\* Retention: one filesystem of a healthy pool, every configuration.
InitRetention ==
    /\ poolList = <<PoolEntry("tank", "tank/data")>>
    /\ zpoolStatus = [p \in {"tank"} |-> Healthy]
    /\ cfg \in { Config(dry, FALSE, k, max, {}, {}) :
                   dry \in BOOLEAN, k \in {1, 100},
                   max \in {DefaultMax, OneEachMax, HourlyOffMax} }
    /\ datasets \in SmallSubsets(TankCandidates)
    /\ lockFile = FALSE

\* Volumes: pool roots, two pools, health states and allow-lists.
InitVolumes ==
    /\ poolList \in { <<PoolEntry("tank", ""), PoolEntry("tank", "tank/data"),
                        PoolEntry("usb", "usb/private")>>,
                      <<PoolEntry("usb", "usb/private"), PoolEntry("usb", ""),
                        PoolEntry("tank", "tank/data")>> }
    /\ zpoolStatus \in { [p \in {"tank", "usb"} |-> Healthy],
                         [p \in {"tank", "usb"} |-> IF p = "usb" THEN Degraded ELSE Healthy],
                         [p \in {"tank", "usb"} |-> IF p = "usb" THEN Errored ELSE Healthy],
                         [p \in {"tank", "usb"} |-> IF p = "usb" THEN ReadErrored ELSE Healthy],
                         [p \in {"tank"} |-> Healthy] }
    /\ cfg \in { Config(FALSE, locking, 100, DefaultMax, allow[1], allow[2]) :
                   locking \in BOOLEAN,
                   allow \in {<<{}, {}>>, <<{"tank"}, {}>>, <<{}, {"usb/private"}>>,
                              <<{}, {"tank/data"}>>} }
    /\ datasets \in {{}, OtherCandidates}
    /\ lockFile \in {FALSE, cfg.EnableLocking}

\* Period boundaries: weekly snapshots around a new year and at the cutoff.
InitWeek ==
    /\ poolList = <<PoolEntry("tank", "tank/data")>>
    /\ zpoolStatus = [p \in {"tank"} |-> Healthy]
    /\ cfg = Config(FALSE, FALSE, 100, OneEachMax, {}, {})
    /\ datasets \in SmallSubsets(WeekCandidates)
    /\ lockFile = FALSE

Init ==
    /\ held = {}
    /\ faults = 0
    /\ op = OneProcess
    /\ hist = [i \in Inst |-> NoHist]
    /\ \/ clock = Now0 /\ (InitRetention \/ InitVolumes)
       \/ clock = NowWeek /\ InitWeek

Spec == Init /\ [][Next]_vars

\* Runs over a pool root and two sub-volumes, with usb healthy or degraded,
\* the hourly frequency enabled or disabled and the lock file present or not.
InitFair ==
    /\ held = {}
    /\ clock = Now0
    /\ faults = 0
    /\ op = OneProcess
    /\ hist = [i \in Inst |-> NoHist]
    /\ poolList = <<PoolEntry("tank", ""), PoolEntry("tank", "tank/data"),
                    PoolEntry("usb", "usb/private")>>
    /\ zpoolStatus \in { [p \in {"tank", "usb"} |-> Healthy],
                         [p \in {"tank", "usb"} |-> IF p = "usb" THEN Degraded ELSE Healthy] }
    /\ cfg \in { Config(FALSE, locking, 100, max, {}, {}) :
                   locking \in BOOLEAN, max \in {DefaultMax, HourlyOffMax} }
    /\ datasets \in {{}, OtherCandidates}
    /\ lockFile \in BOOLEAN

\* A process that can take a step eventually takes one.
SpecFair == InitFair /\ [][Next]_vars /\ WF_vars(Next)

\* Two operator processes started against the same lock path.
LockMax ==
    [hourly |-> 0, daily |-> 7, weekly |-> 4, monthly |-> 1, yearly |-> 3]

InitLock ==
    /\ held = {}
    /\ clock = Now0
    /\ faults = 0
    /\ op = [i \in Inst |-> IdleOp]
    /\ hist = [i \in Inst |-> NoHist]
    /\ poolList = <<PoolEntry("tank", "tank/data")>>
    /\ zpoolStatus = [p \in {"tank"} |-> Healthy]
    /\ cfg = Config(FALSE, TRUE, 100, LockMax, {}, {})
    /\ datasets \in
         { {},
           { Dataset("tank", "tank/data", "autosnap", Date(2026, 1, 30, 10, 0, 0), "hourly"),
             Dataset("tank", "tank/data", "autosnap", Date(2025, 12, 1, 0, 0, 0), "monthly") } }
    /\ lockFile = FALSE

SpecLock == InitLock /\ [][Next]_vars

\* The operator process is started again once it has returned (the next
\* run of the CronJob), at the same clock reading.
Rerun(i) ==
    /\ op[i].pc = "done"
    /\ ~hist[i].rerun
    /\ op' = [op EXCEPT ![i] = IdleOp]
    /\ hist' = [hist EXCEPT ![i].rerun = TRUE,
                             ![i].createdEarlier = hist[i].attempted,
                             ![i].attempted = {},
                             ![i].cleanEarlier = (faults = 0)]
    /\ UNCHANGED <<datasets, lockFile, faults, env>>

NextTwice == Next \/ \E i \in Inst : Rerun(i)

TwiceCandidates ==
    { Dataset("tank", "tank/data", "autosnap", Date(2026, 1, 30, 10, 0, 0), "hourly"),
      Dataset("tank", "tank/data", "autosnap", Date(2026, 1, 31, 12, 0, 30), "hourly"),
      Dataset("tank", "tank/data", "autosnap", Date(2026, 1, 31, 13, 0, 0), "hourly"),
      Dataset("tank", "tank/data", "autosnap", Date(2025, 12, 1, 0, 0, 0), "monthly"),
      Dataset("tank", "tank/data", "autosnap", Date(2026, 1, 1, 0, 0, 0), "monthly") }

InitTwice ==
    /\ held = {}
    /\ clock = Now0
    /\ faults = 0
    /\ op = OneProcess
    /\ hist = [i \in Inst |-> NoHist]
    /\ poolList = <<PoolEntry("tank", "tank/data")>>
    /\ zpoolStatus = [p \in {"tank"} |-> Healthy]
    /\ cfg \in { Config(FALSE, locking, 100, max, {}, {}) :
                   locking \in BOOLEAN, max \in {OneEachMax, HourlyOffMax} }
    /\ datasets \in SUBSET TwiceCandidates
    /\ lockFile = FALSE

SpecTwice == InitTwice /\ [][NextTwice]_vars

\* A Run with a retention of 300 yearly snapshots.
ManyYearlyCandidates ==
    { Dataset("tank", "tank/data", "autosnap", Date(2025, 1, 1, 0, 0, 0), "yearly"),
      Dataset("tank", "tank/data", "autosnap", Date(2026, 1, 1, 0, 0, 0), "yearly"),
      Dataset("tank", "tank/data", "autosnap", Date(2026, 1, 31, 12, 0, 0), "hourly") }

InitManyYearly ==
    /\ held = {}
    /\ clock = Now0
    /\ faults = 0
    /\ op = OneProcess
    /\ hist = [i \in Inst |-> NoHist]
    /\ poolList = <<PoolEntry("tank", "tank/data")>>
    /\ zpoolStatus = [p \in {"tank"} |-> Healthy]
    /\ cfg \in { Config(FALSE, locking, 100, max, {}, {}) :
                   locking \in BOOLEAN,
                   max \in {ManyYearlyMax, ManyYearlyHourlyOffMax} }
    /\ datasets \in SUBSET ManyYearlyCandidates
    /\ lockFile = FALSE

SpecManyYearly == InitManyYearly /\ [][Next]_vars

\* The process is started again, any number of times: every start is a new
\* Operator and a new Run, over the snapshots the earlier Runs left.
RunAgain(i) ==
    /\ op[i].pc = "done"
    /\ op' = [op EXCEPT ![i] = IdleOp]
    /\ hist' = [hist EXCEPT ![i].again = TRUE]
    /\ UNCHANGED <<datasets, lockFile, faults, env>>

NextRepeat == Next \/ \E i \in Inst : RunAgain(i)

RepeatCandidates ==
    { Dataset("tank", "tank/data", "autosnap", Date(2026, 1, 30, 9, 0, 0), "hourly"),
      Dataset("tank", "tank/data", "autosnap", Date(2026, 1, 30, 10, 0, 0), "hourly"),
      Dataset("tank", "tank/data", "autosnap", Date(2025, 12, 1, 0, 0, 0), "monthly") }

InitRepeat ==
    /\ clock = Now0
    /\ faults = 0
    /\ op = OneProcess
    /\ hist = [i \in Inst |-> NoHist]
    /\ poolList = <<PoolEntry("tank", "tank/data")>>
    /\ zpoolStatus = [p \in {"tank"} |-> Healthy]
    /\ cfg \in { Config(FALSE, locking, budget, max, {}, {}) :
                   locking \in BOOLEAN, budget \in {1, 2},
                   max \in {OneEachMax, HourlyOffMax} }
    /\ datasets = RepeatCandidates
    /\ held \in {{}} \cup { {d} : d \in RepeatCandidates }
    /\ lockFile = FALSE

\* The scheduler of the job starts the process again and again; that a Run
\* that was started returns is a premise of the properties that need it.
SpecRepeat ==
    InitRepeat /\ [][NextRepeat]_vars /\ WF_vars(\E i \in Inst : RunAgain(i))

(***************************************************************************)
(* Properties                                                              *)
(***************************************************************************)
\* The models.Snapshot the listing of a Run holds for the entry d.
Listed(d) == CHOOSE s \in ParseSnapshotsJSON({d}, cfg.SnapshotPrefix) : TRUE

Started(i) == op[i].pc \notin {"off", "idle"}
Finished(i) == op[i].pc \in {"release", "done"}

IsDeleteEvent(e) == e.op \in {"delete", "simDelete"}
IsCreationStep(e) ==
    e.op \in {"recent", "simCreate"} \/ (e.op = "create" /\ e.ok)
Enabled(frequency) == GetMaxSnapshotsForFrequency(cfg, frequency) # 0

\* C1: in a pass of an enabled frequency that is not a dry run, a failed
\* create call is followed by no delete call in that pass, and the pass
\* returns an error.
C1_FailedCreateStopsPass ==
    \A i \in Inst : \A k \in DOMAIN hist[i].passLog :
        LET e == hist[i].passLog[k]
        IN  (e.op = "create" /\ ~e.ok) =>
              /\ \A j \in DOMAIN hist[i].passLog : ~IsDeleteEvent(hist[i].passLog[j])
              /\ hist[i].passResult = "err"

\* A pass with two deletion candidates whose create call failed.
C1_Witness ==
    \E i \in Inst :
        /\ hist[i].passEligible >= 2
        /\ hist[i].passResult = "err"
        /\ \E k \in DOMAIN hist[i].passLog :
             hist[i].passLog[k].op = "create" /\ ~hist[i].passLog[k].ok

\* C2 as stated: in every pass, every delete call or simulated deletion
\* comes after the pass created the snapshot of the current period,
\* simulated its creation, or found a recent snapshot.
C2_DeleteAfterCreationStep ==
    \A i \in Inst : \A k \in DOMAIN hist[i].passLog :
        IsDeleteEvent(hist[i].passLog[k]) =>
          \E j \in 1..(k - 1) : IsCreationStep(hist[i].passLog[j])

\* C2 amended: the same, in every pass of an enabled frequency.
C2_DeleteAfterCreationStepWhenEnabled ==
    \A i \in Inst : \A k \in DOMAIN hist[i].passLog :
        (IsDeleteEvent(hist[i].passLog[k]) /\ Enabled(hist[i].passLog[k].freq)) =>
          \E j \in 1..(k - 1) : IsCreationStep(hist[i].passLog[j])

\* A pass of an enabled frequency that created a snapshot and then deleted.
C2_Witness ==
    \E i \in Inst : \E j, k \in DOMAIN hist[i].passLog :
        /\ j < k
        /\ hist[i].passLog[j].op = "create" /\ hist[i].passLog[j].ok
        /\ hist[i].passLog[k].op = "delete" /\ hist[i].passLog[k].ok
        /\ Enabled(hist[i].passLog[k].freq)

\* C3: a pass of an enabled frequency that found snapshots and created none
\* leaves at least one snapshot of that frequency on the sub-volume.
C3_NeverZeroSnapshots ==
    \A i \in Inst :
        LET log == hist[i].passLog
        IN  (/\ log # <<>>
             /\ Enabled(log[1].freq)
             /\ hist[i].passListed > 0
             /\ \A k \in DOMAIN log : ~(log[k].op = "create" /\ log[k].ok))
            => GetSnapshots(cfg, datasets, log[1].pool, log[1].fs, log[1].freq) # {}

\* C4: at most one process is between a successful acquireLock and its
\* releaseLock.
C4_MutualExclusion ==
    \A i, j \in Inst : (op[i].deferRelease /\ op[j].deferRelease) => i = j

DeleteAttempts(i) == hist[i].deleteCalls + hist[i].simDeletes

\* C5: a Run with more deletion candidates than the budget attempts exactly
\* as many deletions as the budget, and does not fail because of the rest.
C5_ExactlyBudgetAttempts ==
    \A i \in Inst :
        (/\ Finished(i)
         /\ hist[i].startupOk
         /\ hist[i].eligible > cfg.MaxDeletionsPerRun)
        => /\ DeleteAttempts(i) = cfg.MaxDeletionsPerRun
           /\ (op[i].errors = 0 => op[i].result = "ok")

\* C6: the deletion counter never exceeds the per-run maximum.
C6_CounterWithinBudget ==
    \A i \in Inst : op[i].deletionCount <= cfg.MaxDeletionsPerRun

\* C7: in a dry run no create and no delete call reaches the collaborator,
\* and the snapshots are those that existed when the Run began.
C7_DryRunChangesNothing ==
    \A i \in Inst :
        (cfg.DryRun /\ Started(i)) =>
          /\ hist[i].createCalls = 0
          /\ hist[i].deleteCalls = 0
          /\ datasets = hist[i].before

\* A finished dry run that simulated a creation and the cleanup of a
\* disabled frequency.
C7_Witness ==
    \E i \in Inst :
        /\ cfg.DryRun
        /\ op[i].result = "ok"
        /\ ~Enabled("hourly")
        /\ hist[i].simDeletes >= 2
        /\ hist[i].simCreates >= 1

\* A manual or foreign snapshot: the listing gives it the empty frequency.
IsManual(d) == Listed(d).Frequency = ""

\* C8: a snapshot with the empty frequency label is never listed for a pass
\* (so it is neither kept, nor a deletion candidate, nor the recent
\* snapshot), is never the target of a delete, and stays on the host.
C8_ManualSnapshotsUntouched ==
    \A i \in Inst :
        /\ \A k \in DOMAIN op[i].snapshots : op[i].snapshots[k].Frequency # ""
        /\ \A k \in DOMAIN op[i].toKeep : op[i].toKeep[k].Frequency # ""
        /\ \A k \in DOMAIN op[i].toDelete : op[i].toDelete[k].Frequency # ""
        /\ \A k \in DOMAIN hist[i].passLog :
             IsDeleteEvent(hist[i].passLog[k]) =>
               ~IsManual(DatasetNamed(hist[i].passLog[k].pool,
                                      hist[i].passLog[k].fs,
                                      hist[i].passLog[k].name))
        /\ Started(i) =>
             \A d \in hist[i].before : IsManual(d) => d \in datasets
        /\ op[i].recent =>
             \E d \in hist[i].before \cup datasets :
                 /\ ~IsManual(d)
                 /\ IsSnapshotRecent(Listed(d), CurFreq(op[i]), op[i].now)

\* A finished Run that deleted a snapshot and created the hourly one while
\* two manual snapshots existed all along: one of the current hour, and one
\* older than the hourly cutoff whose name ends in _hourly.
C8_Witness ==
    \E i \in Inst :
        /\ op[i].result = "ok"
        /\ hist[i].deleteCalls >= 1
        /\ \E d \in hist[i].before :
             /\ IsManual(d)
             /\ d \in datasets
             /\ GetTimePeriodKey(DateTimeOf(d.SnapshotName), "hourly")
                  = GetTimePeriodKey(op[i].now, "hourly")
        /\ \E d \in hist[i].before :
             /\ IsManual(d)
             /\ d \in datasets
             /\ FrequencyOf(d.SnapshotName) = "hourly"
             /\ Before(Unix(DateTimeOf(d.SnapshotName)),
                       GetMaxSnapshotDate(cfg, "hourly", op[i].now))
        /\ Dataset("tank", "tank/data", "autosnap", Now0, "hourly") \in datasets

UnhealthyEntries ==
    { k \in DOMAIN poolList :
        /\ IsPoolAllowed(cfg, poolList[k].PoolName)
        /\ ~IsPoolHealthy(poolList[k].PoolName, zpoolStatus) }

\* C9: no listing, create or delete call is issued for an unhealthy pool,
\* each of its entries is recorded as an error, and the Run goes on to the
\* remaining pools.
C9_UnhealthyPoolSkipped ==
    \A i \in Inst :
        /\ \A p \in hist[i].touched : IsPoolHealthy(p, zpoolStatus)
        /\ \A k \in UnhealthyEntries :
             k \in hist[i].processed =>
               /\ op[i].errors >= Cardinality({ j \in UnhealthyEntries : j <= k })
               /\ op[i].pc = "pool" => op[i].poolIdx > k
        /\ (Finished(i) /\ hist[i].startupOk) =>
             /\ op[i].errors = Cardinality(UnhealthyEntries)
             /\ hist[i].processed = DOMAIN poolList

\* A finished Run that skipped the unhealthy pool first and then created
\* snapshots on the healthy one.
C9_Witness ==
    \E i \in Inst :
        /\ op[i].pc = "done"
        /\ 1 \in UnhealthyEntries
        /\ op[i].errors = 2
        /\ hist[i].touched = {"tank"}
        /\ hist[i].createCalls >= 1

\* C10: a Run whose startup succeeded returns only after every pool entry
\* has been processed, and returns an error if it recorded any error.
C10_FailureAfterFullPass ==
    \A i \in Inst :
        (hist[i].startupOk /\ op[i].result # "none") =>
          /\ hist[i].processed = DOMAIN poolList
          /\ op[i].errors > 0 => op[i].result = "err"

\* A Run that recorded an error for its first entry, processed the last
\* one and returned an error.
C10_Witness ==
    \E i \in Inst :
        /\ hist[i].startupOk
        /\ op[i].result = "err"
        /\ op[i].errors > 0
        /\ 1 \in UnhealthyEntries
        /\ PoolVerdict(cfg, poolList[Len(poolList)], zpoolStatus) = "process"
        /\ hist[i].processed = DOMAIN poolList

\* C11: a Run in which a create call failed returns an error, after it has
\* processed every pool entry.
C11_FailedCreateFailsRun ==
    \A i \in Inst :
        (/\ hist[i].startupOk
         /\ op[i].result # "none"
         /\ hist[i].createFailedIn # {})
        => /\ op[i].result = "err"
           /\ hist[i].processed = DOMAIN poolList

\* C12 as stated: after a create call failed, no delete call is issued in
\* the rest of the Run.
C12_NoDeleteInRunAfterFailedCreate ==
    \A i \in Inst : hist[i].deletedAfterFailure = {}

\* C12 amended: after a create call failed, no delete call is issued in the
\* pass of the failed create; passes of other frequencies and pool entries
\* go on.
C12_NoDeleteInPassOfFailedCreate ==
    \A i \in Inst :
        /\ hist[i].deletedAfterFailure \cap hist[i].createFailedIn = {}
        /\ \A key \in hist[i].createFailedIn :
             \/ PassKey(op[i]) # key
             \/ op[i].pc \notin {"delete", "cleanup"}

\* A Run whose hourly create failed and that deleted in a later pass.
C12_Witness ==
    \E i \in Inst :
        /\ <<1, 1>> \in hist[i].createFailedIn
        /\ hist[i].deletedAfterFailure # {}
        /\ op[i].pc = "done"

\* C13: when a Run that created the lock file has returned, the lock file
\* does not exist.
C13_MarkerGoneAfterRun ==
    \A i \in Inst :
        (cfg.EnableLocking /\ op[i].pc = "done" /\ hist[i].createdMarker)
        => ~lockFile

\* C14: a Run that found the lock file at its start returns an error
\* without a call of GetVersion, GetPoolStatus, GetPools, GetSnapshots,
\* CreateSnapshot or DeleteSnapshot.
C14_ExistingMarkerFailsFast ==
    \A i \in Inst :
        (cfg.EnableLocking /\ Started(i) /\ hist[i].markerAtStart)
        => /\ op[i].pc \in {"stat", "done"}
           /\ op[i].pc = "done" => op[i].result = "err"
           /\ hist[i].startups = 0
           /\ hist[i].passLog = <<>>
           /\ hist[i].touched = {}
           /\ hist[i].createCalls = 0
           /\ hist[i].deleteCalls = 0
           /\ datasets = hist[i].before

\* A Run that returned an error because the lock file existed, with
\* snapshots on the host.
C14_Witness ==
    \E i \in Inst :
        /\ cfg.EnableLocking
        /\ hist[i].markerAtStart
        /\ op[i].pc = "done"
        /\ op[i].result = "err"
        /\ datasets # {}
        /\ lockFile

Range(q) == { q[k] : k \in DOMAIN q }

\* The listing of a pass lies in one period of the pass's frequency.
OnePeriod(o) ==
    /\ o.pc \in {"create", "delete"}
    /\ o.snapshots # <<>>
    /\ \A a, b \in DOMAIN o.snapshots :
         /\ GetTimePeriodKey(o.snapshots[a].DateTime, CurFreq(o))
              = GetTimePeriodKey(o.snapshots[b].DateTime, CurFreq(o))
         /\ a # b => o.snapshots[a].DateTime # o.snapshots[b].DateTime

Latest(q) == CHOOSE s \in Range(q) : \A r \in Range(q) : r.DateTime <= s.DateTime

KeepsOnlyLatest(o) ==
    /\ o.toKeep = <<Latest(o.snapshots)>>
    /\ Range(o.toDelete) = Range(o.snapshots) \ {Latest(o.snapshots)}
    /\ Len(o.toDelete) = Len(o.snapshots) - 1

\* C15 as stated: of N snapshots of one period, the classification keeps
\* exactly the latest and puts the other N-1 in delete.
C15_KeepLatestOfPeriod ==
    \A i \in Inst : OnePeriod(op[i]) => KeepsOnlyLatest(op[i])

\* C15 amended: of N snapshots of one period, the classification keeps
\* exactly the latest and puts the other N-1 in delete if the latest is at
\* or after the retention cutoff, and puts all N in delete if it is older.
C15_KeepLatestOfPeriodInWindow ==
    \A i \in Inst :
        OnePeriod(op[i]) =>
          IF ~Before(Unix(Latest(op[i].snapshots).DateTime),
                     GetMaxSnapshotDate(cfg, CurFreq(op[i]), op[i].now))
          THEN KeepsOnlyLatest(op[i])
          ELSE /\ op[i].toKeep = <<>>
               /\ Range(op[i].toDelete) = Range(op[i].snapshots)
               /\ Len(op[i].toDelete) = Len(op[i].snapshots)

\* Two hourly snapshots of the hour before: the later one is kept.
C15_Witness ==
    \E i \in Inst :
        /\ OnePeriod(op[i])
        /\ Len(op[i].snapshots) = 2
        /\ Len(op[i].toKeep) = 1
        /\ op[i].toKeep[1].DateTime = Date(2026, 1, 31, 12, 40, 0)
        /\ Len(op[i].toDelete) = 1
        /\ op[i].toDelete[1].DateTime = Date(2026, 1, 31, 12, 0, 30)

\* C16: a Run that follows a Run whose calls all succeeded, at the same
\* time, issues no create call for a pass the earlier Run created in.
C16_SecondPassCreatesNothing ==
    \A i \in Inst :
        hist[i].cleanEarlier =>
          hist[i].attempted \cap hist[i].createdEarlier = {}

\* Two finished Runs without a failed call, the first of which created.
C16_Witness ==
    \E i \in Inst :
        /\ hist[i].rerun
        /\ hist[i].cleanEarlier
        /\ hist[i].createdEarlier # {}
        /\ faults = 0
        /\ op[i].pc = "done"
        /\ op[i].result = "ok"
        /\ hist[i].startupOk

\* C17: a pass of an enabled frequency issues (or simulates) a create
\* exactly when no listed snapshot has the period key of the current time.
C17_CreateIffNoSnapshotOfPeriod ==
    \A i \in Inst :
        LET log == hist[i].passLog
        IN  (Len(log) >= 2 /\ Enabled(log[1].freq)) =>
              ( log[2].op \in {"create", "simCreate"}
                <=> ~\E s \in hist[i].passListing :
                       GetTimePeriodKey(s.DateTime, log[1].freq)
                         = GetTimePeriodKey(op[i].now, log[1].freq) )

\* The hourly pass at 13:00:05 created a snapshot although the snapshot of
\* 12:00:30, less than an hour old, was listed.
C17_Witness ==
    \E i \in Inst :
        LET log == hist[i].passLog
        IN  /\ Len(log) >= 2
            /\ log[1].freq = "hourly"
            /\ log[2].op = "create" /\ log[2].ok
            /\ \E s \in hist[i].passListing :
                 /\ s.DateTime = Date(2026, 1, 31, 12, 0, 30)
                 /\ op[i].now - s.DateTime < 3600

\* C18: after a pass of an enabled frequency in which every call succeeded
\* and the budget was not reached, at most maxCount snapshots of the
\* frequency remain on the sub-volume.
C18_AtMostMaxCountRemain ==
    \A i \in Inst :
        LET log == hist[i].passLog
        IN  (/\ log # <<>>
             /\ Enabled(log[1].freq)
             /\ hist[i].passResult = "ok"
             /\ faults = 0
             /\ ~cfg.DryRun
             /\ op[i].deletionCount < cfg.MaxDeletionsPerRun)
            => Cardinality(GetSnapshots(cfg, datasets, log[1].pool, log[1].fs, log[1].freq))
                 <= GetMaxSnapshotsForFrequency(cfg, log[1].freq)

\* The datasets of a sub-volume that the listing gives the frequency.
Labelled(pool, fs, frequency) ==
    { d \in datasets :
        d.Pool = pool /\ d.Dataset = fs /\ Listed(d).Frequency = frequency }

\* C19: a pass of a disabled frequency issues and simulates no create,
\* every snapshot of the frequency on the sub-volume is a deletion
\* candidate, and all of them are gone after a pass without a failed call
\* that did not use up the budget.
C19_DisabledFrequencyCleanup ==
    \A i \in Inst :
        LET log == hist[i].passLog
        IN  (log # <<>> /\ ~Enabled(log[1].freq) /\ log[1].ok) =>
              /\ \A k \in DOMAIN log :
                   log[k].op \notin {"create", "simCreate", "recent"}
              /\ hist[i].passEligible
                   = Cardinality(Labelled(log[1].pool, log[1].fs, log[1].freq))
                     + Cardinality({ k \in DOMAIN log : log[k].op = "delete" /\ log[k].ok })
              /\ (/\ hist[i].passResult = "ok"
                  /\ ~cfg.DryRun
                  /\ op[i].deletionCount < cfg.MaxDeletionsPerRun
                  /\ \A k \in DOMAIN log : log[k].ok)
                 => Labelled(log[1].pool, log[1].fs, log[1].freq) = {}

\* The cleanup of the disabled hourly frequency deleted two snapshots, the
\* one of the current hour among them.
C19_Witness ==
    \E i \in Inst :
        LET log == hist[i].passLog
            h3  == Dataset("tank", "tank/data", "autosnap", Date(2026, 1, 31, 13, 0, 0), "hourly")
        IN  /\ log # <<>>
            /\ log[1].freq = "hourly"
            /\ ~Enabled("hourly")
            /\ hist[i].passResult = "ok"
            /\ hist[i].passEligible >= 2
            /\ h3 \in hist[i].before
            /\ h3 \notin datasets

\* C20: in a dry run the deletion counter counts the simulated deletions
\* and the creation counter the simulated creations.
C20_DryRunCountersAdvance ==
    \A i \in Inst :
        (cfg.DryRun /\ hist[i].startupOk) =>
          /\ op[i].deletionCount = hist[i].simDeletes
          /\ op[i].creationCount = hist[i].simCreates

\* The counters of a status entry that report an error.
NonzeroCounters(status) ==
    { n \in {"ErrorCount", "ReadErrors", "WriteErrors", "ChecksumErrors"} :
        status[n] \notin {"0", ""} }

\* C21: a pool is listed or written to only if it has a status entry whose
\* state is ONLINE and whose data error count and read, write and checksum
\* counters are all zero; every entry of any other pool is skipped with an
\* error.
C21_HealthyOnlyIfAllCountersZero ==
    \A i \in Inst :
        /\ \A p \in hist[i].touched :
             /\ p \in DOMAIN zpoolStatus
             /\ zpoolStatus[p].State = "ONLINE"
             /\ NonzeroCounters(zpoolStatus[p]) = {}
        /\ \A p \in DOMAIN zpoolStatus :
             (zpoolStatus[p].State = "ONLINE" /\ NonzeroCounters(zpoolStatus[p]) = {})
               => IsPoolHealthy(p, zpoolStatus)

\* The calendar bucket of a time: the number of its quarter hour, hour, day
\* or Monday-based week since the epoch, or of its month or year.
Bucket(t, frequency) ==
    CASE frequency = "frequently" -> DayOf(t) * 96 + SecondOfDay(t) \div 900
      [] frequency = "hourly"     -> DayOf(t) * 24 + SecondOfDay(t) \div 3600
      [] frequency = "daily"      -> DayOf(t)
      [] frequency = "weekly"     -> (DayOf(t) + 3) \div 7
      [] frequency = "monthly"    ->
           CivilFromDays(DayOf(t)).year * 12 + CivilFromDays(DayOf(t)).month
      [] frequency = "yearly"     -> CivilFromDays(DayOf(t)).year

\* The times on the host when a pass has classified its listing: the time
\* of the Run and the times of the snapshots.
KeyedTimes ==
    IF \E i \in Inst : op[i].pc = "create"
    THEN {clock} \cup { Listed(d).DateTime : d \in datasets }
    ELSE {}

\* C22: for frequently, hourly, daily, weekly, monthly and yearly, two times
\* have the same period key iff they lie in the same calendar bucket; the
\* days of one ISO week have the same weekly key across a year boundary.
C22_SameKeyIffSameBucket ==
    \A frequency \in RecognizedLabels :
        \A t, u \in KeyedTimes :
            t < u =>
              ((GetTimePeriodKey(t, frequency) = GetTimePeriodKey(u, frequency))
                 <=> (Bucket(t, frequency) = Bucket(u, frequency)))

\* A weekly pass listed snapshots of 2025-12-29 and 2026-01-01, found the
\* week of 2026-01-04 covered and kept only the newer of the two.
C22_Witness ==
    \E i \in Inst :
        LET mon == Listed(Dataset("tank", "tank/data", "autosnap",
                                         Date(2025, 12, 29, 8, 0, 0), "weekly"))
            thu == Listed(Dataset("tank", "tank/data", "autosnap",
                                         Date(2026, 1, 1, 0, 0, 0), "weekly"))
        IN  /\ op[i].pc = "delete"
            /\ CurFreq(op[i]) = "weekly"
            /\ op[i].recent
            /\ Range(op[i].toKeep) = {thu}
            /\ mon \in Range(op[i].toDelete)
            /\ CivilFromDays(DayOf(mon.DateTime)).year = 2025
            /\ GetTimePeriodKey(mon.DateTime, "weekly") = <<2026, 1>>
            /\ GetTimePeriodKey(clock, "weekly") = <<2026, 1>>

\* The period lengths in hours: 1 hour, 1 day, 7 days, 28 days, 364 days.
PeriodLength(frequency) ==
    CASE frequency = "hourly"  -> 1
      [] frequency = "daily"   -> 24
      [] frequency = "weekly"  -> 168
      [] frequency = "monthly" -> 672
      [] frequency = "yearly"  -> 8736

\* The time count periods of a frequency before now, as a time.
CountPeriodsBefore(now, count, frequency) ==
    LET h == now \div 3600 - count * PeriodLength(frequency)
    IN  Time(h \div 24, (h % 24) * 3600 + (now % 3600), 0)

\* C23: the retention cutoff of a frequency is the current time minus
\* maxCount times the period length (1 hour, 1 day, 7 days, 28 days,
\* 364 days), and a pass keeps no snapshot older than it. The int64
\* nanoseconds of the product wrap from 294 years of 364 days on.
C23_CutoffIsCountTimesPeriod ==
    /\ \A k \in DOMAIN Frequencies :
         GetMaxSnapshotDate(cfg, Frequencies[k], clock)
           = CountPeriodsBefore(clock, cfg.Max[Frequencies[k]], Frequencies[k])
    /\ \A i \in Inst :
         (op[i].pc \in {"create", "delete"} /\ Enabled(CurFreq(op[i]))) =>
           \A k \in DOMAIN op[i].toKeep :
             ~Before(Unix(op[i].toKeep[k].DateTime),
                     CountPeriodsBefore(op[i].now, cfg.Max[CurFreq(op[i])],
                                        CurFreq(op[i])))

\* A monthly pass with maxCount 1 at 2026-01-31 13:00:05 put the snapshot
\* of 2026-01-01 among the deletion candidates: the cutoff is 28 days back.
C23_Witness ==
    \E i \in Inst :
        /\ op[i].pc = "delete"
        /\ CurFreq(op[i]) = "monthly"
        /\ cfg.Max["monthly"] = 1
        /\ GetMaxSnapshotDate(cfg, "monthly", op[i].now)
             = Unix(Date(2026, 1, 3, 13, 0, 5))
        /\ \E k \in DOMAIN op[i].toDelete :
             op[i].toDelete[k].DateTime = Date(2026, 1, 1, 0, 0, 0)

\* A dataset is a snapshot of the pool, sub-volume and frequency of the
\* pass the process is in.
OfCurrentPass(o, d) ==
    /\ d.Pool = CurPool(o).PoolName
    /\ d.Dataset = CurPool(o).FilesystemName
    /\ Listed(d).Frequency = CurFreq(o)

\* The snapshot the next delete call of the process is for.
DeleteTarget(o) ==
    IF o.pc = "delete" THEN o.toDelete[o.delIdx] ELSE o.snapshots[o.delIdx]

OwnStep ==
    /\ \A i \in Inst :
         op[i].pc \in {"delete", "cleanup"} =>
           OfCurrentPass(op[i], DatasetOf(DeleteTarget(op[i])))
    /\ \A d \in datasets \ datasets' :
         \E i \in Inst :
           /\ op[i].pc \in {"delete", "cleanup"}
           /\ op'[i] # op[i]
           /\ OfCurrentPass(op[i], d)
    /\ \A d \in datasets' \ datasets :
         \E i \in Inst :
           /\ op[i].pc = "create"
           /\ op'[i] # op[i]
           /\ OfCurrentPass(op[i], d)

\* C24: every delete call of a pass is for a snapshot of the pass's pool,
\* of exactly its sub-volume and of its frequency, and a step of a pass
\* adds or removes no snapshot of another pool, sub-volume or frequency.
C24_PassTouchesOnlyOwnSnapshots == [][OwnStep]_vars

\* The Run deleted the old hourly snapshot of usb/private and of no other
\* sub-volume: the one of the same name on tank/data/sub, a child of the
\* processed tank/data, is still there.
C24_Witness ==
    \E i \in Inst :
        LET usb == Dataset("usb", "usb/private", "autosnap", Date(2026, 1, 30, 10, 0, 0), "hourly")
            sub == Dataset("tank", "tank/data/sub", "autosnap", Date(2026, 1, 30, 10, 0, 0), "hourly")
        IN  /\ op[i].pc = "done"
            /\ hist[i].touched = {"tank", "usb"}
            /\ hist[i].before = {usb, sub}
            /\ usb \notin datasets
            /\ sub \in datasets
            /\ hist[i].deleteCalls = 1

\* The dataset the create call of pass key = <<pool index, frequency index>>
\* of the process's Run made.
CreatedIn(i, key) ==
    DatasetOf(NewSnapshot(cfg, poolList[key[1]], Frequencies[key[2]], op[i].now))

\* C25: a snapshot created in a pass is the target of no delete call later
\* in the same Run, and is still there at every later point of the Run; the
\* deletion candidates of a pass are snapshots that existed before the Run
\* created any.
C25_CreatedNeverDeletedInRun ==
    \A i \in Inst :
        /\ \A key \in hist[i].attempted \ hist[i].createFailedIn :
             /\ CreatedIn(i, key) \in datasets
             /\ op[i].pc \in {"delete", "cleanup"} =>
                  DatasetOf(DeleteTarget(op[i])) # CreatedIn(i, key)
        /\ \A k \in DOMAIN op[i].toDelete :
             DatasetOf(op[i].toDelete[k]) \in hist[i].before
        /\ op[i].pc = "cleanup" =>
             \A k \in DOMAIN op[i].snapshots :
               DatasetOf(op[i].snapshots[k]) \in hist[i].before

\* The hourly pass created the snapshot of 13:00:05 and then deleted the
\* one of 2026-01-30; at the end of the Run the new one is still there.
C25_Witness ==
    \E i \in Inst :
        LET old == Dataset("tank", "tank/data", "autosnap", Date(2026, 1, 30, 10, 0, 0), "hourly")
        IN  /\ op[i].pc = "done"
            /\ <<1, 1>> \in hist[i].attempted \ hist[i].createFailedIn
            /\ FrequencyOf(CreatedIn(i, <<1, 1>>).SnapshotName) = "hourly"
            /\ CreatedIn(i, <<1, 1>>) \in datasets \ hist[i].before
            /\ old \in hist[i].before \ datasets
            /\ hist[i].createCalls >= 4

\* A step of a process whose os.Stat finds the lock file ends its Run with
\* an error and leaves the file; the file is removed only by a process
\* that acquired the lock.
FailedAcquireStep ==
    \A i \in Inst :
        /\ (op[i].pc = "stat" /\ lockFile /\ op'[i] # op[i]) =>
             /\ lockFile'
             /\ op'[i].pc = "done"
             /\ op'[i].result = "err"
        /\ (op'[i] # op[i] /\ lockFile /\ ~lockFile') => op[i].deferRelease

\* C26: a Run that fails to acquire the lock because the lock file exists
\* never removes it, so it cannot release the lock of another process.
C26_FailedAcquireLeavesMarker == [][FailedAcquireStep]_vars

\* One process returned an error without having created the lock file
\* while the other one, which holds the lock, is still in its Run.
C26_Witness ==
    \E i, j \in Inst :
        /\ op[i].pc = "done"
        /\ op[i].result = "err"
        /\ ~hist[i].createdMarker
        /\ ~hist[i].startupOk
        /\ op[j].deferRelease
        /\ op[j].pc \in {"create", "delete"}
        /\ lockFile

\* The snapshots of a listing that are the newest of their period, alone at
\* their timestamp.
Keepers(q, frequency) ==
    { s \in Range(q) :
        \A r \in Range(q) \ {s} :
            GetTimePeriodKey(r.DateTime, frequency) = GetTimePeriodKey(s.DateTime, frequency)
              => r.DateTime < s.DateTime }

\* C27: the keeper of a period is kept iff its timestamp is at or after
\* the retention cutoff, and is a deletion candidate iff it is older.
C27_KeeperKeptIffAtOrAfterCutoff ==
    \A i \in Inst :
        (op[i].pc \in {"create", "delete"} /\ Enabled(CurFreq(op[i]))) =>
          \A s \in Keepers(op[i].snapshots, CurFreq(op[i])) :
            LET cutoff == GetMaxSnapshotDate(cfg, CurFreq(op[i]), op[i].now)
            IN  /\ s \in Range(op[i].toKeep) <=> ~Before(Unix(s.DateTime), cutoff)
                /\ s \in Range(op[i].toDelete) <=> Before(Unix(s.DateTime), cutoff)

\* A weekly pass with maxCount 1 at 2026-01-04 10:00:00 kept the snapshot
\* taken exactly seven days earlier and put the one of the week before
\* among the deletion candidates.
C27_Witness ==
    \E i \in Inst :
        LET at  == Listed(Dataset("tank", "tank/data", "autosnap",
                                         Date(2025, 12, 28, 10, 0, 0), "weekly"))
            old == Listed(Dataset("tank", "tank/data", "autosnap",
                                         Date(2025, 12, 21, 10, 0, 0), "weekly"))
        IN  /\ op[i].pc = "delete"
            /\ CurFreq(op[i]) = "weekly"
            /\ Unix(at.DateTime) = GetMaxSnapshotDate(cfg, "weekly", op[i].now)
            /\ at \in Range(op[i].toKeep)
            /\ old \in Range(op[i].toDelete)
            /\ {at, old} \subseteq Keepers(op[i].snapshots, "weekly")

\* The single snapshot with the latest timestamp among the deletion
\* candidates of the pass the process is in.
IsLatestCandidate(o, s) ==
    /\ s \in Range(o.toDelete)
    /\ \A r \in Range(o.toDelete) \ {s} : r.DateTime < s.DateTime

\* C28: when the classification of a pass left keep empty and delete
\* non-empty and the pass created no snapshot, the latest deletion
\* candidate is kept: no delete call of the pass is for it.
C28_GuardKeepsLatestCandidate ==
    \A i \in Inst :
        (/\ op[i].pc = "delete"
         /\ Enabled(CurFreq(op[i]))
         /\ ~cfg.DryRun
         /\ op[i].toKeep = <<>>
         /\ op[i].toDelete # <<>>
         /\ \A k \in DOMAIN hist[i].passLog :
              ~(hist[i].passLog[k].op = "create" /\ hist[i].passLog[k].ok))
        => ~IsLatestCandidate(op[i], DeleteTarget(op[i]))

\* C29: for every frequency with maxCount >= 1, a snapshot on the host
\* that IsSnapshotRecent reports as recent at the time of the Run is not
\* reported as deletable by CanSnapshotBeDeleted.
C29_RecentNeverDeletable ==
    \A d \in datasets :
        \A k \in DOMAIN Frequencies :
            (/\ cfg.Max[Frequencies[k]] >= 1
             /\ IsSnapshotRecent(Listed(d), Frequencies[k], clock))
            => ~CanSnapshotBeDeleted(cfg, Listed(d), Frequencies[k], clock)

\* The keepers of the periods of a sorted listing: the entries of periodMap.
KeepersOfPeriods(q, frequency) ==
    { q[k] : k \in { j \in DOMAIN q : IsKeeperForPeriod(q, j, frequency) } }

\* C30: when snapshots of a frequency have the same timestamp, the keepers
\* of the periods of a pass are the same for every order the listing can be
\* sorted into: they are a function of the set of snapshots listed.
C30_KeeperIndependentOfOrder ==
    \A i \in Inst :
        (op[i].pc \in {"create", "delete"} /\ Enabled(CurFreq(op[i]))) =>
          \A q \in SortedNewestFirst(Range(op[i].snapshots)) :
            KeepersOfPeriods(q, CurFreq(op[i]))
              = KeepersOfPeriods(op[i].snapshots, CurFreq(op[i]))

\* The delete calls in the log of the current pass.
DeleteCallsOfPass(i) ==
    { k \in DOMAIN hist[i].passLog : hist[i].passLog[k].op = "delete" }

\* C31: a failed delete call does not end the pass, is not counted and is
\* no error: the counter is the number of successful delete calls, a pass
\* with a failed delete call returns no error and has attempted all its
\* candidates unless the budget was reached, and a Run whose pools are all
\* healthy returns no error.
C31_FailedDeleteGoesOn ==
    \A i \in Inst :
        LET log == hist[i].passLog
            failed == { k \in DeleteCallsOfPass(i) : ~log[k].ok }
        IN  /\ (hist[i].startupOk /\ ~cfg.DryRun) =>
                 op[i].deletionCount = hist[i].deleteCalls - hist[i].deleteFailures
            /\ failed # {} =>
                 /\ hist[i].passResult \in {"running", "ok"}
                 /\ hist[i].passResult = "ok" =>
                      \/ Cardinality(DeleteCallsOfPass(i)) = hist[i].passEligible
                      \/ /\ Enabled(log[1].freq)
                         /\ op[i].deletionCount >= cfg.MaxDeletionsPerRun
            /\ (Finished(i) /\ hist[i].startupOk /\ UnhealthyEntries = {}) =>
                 op[i].result = "ok"

\* A pass that returned no error after its first delete call failed and
\* its second one succeeded; the Run has recorded no error.
C31_Witness ==
    \E i \in Inst :
        LET log == hist[i].passLog
        IN  /\ hist[i].passResult = "ok"
            /\ op[i].errors = 0
            /\ hist[i].deleteFailures = 1
            /\ op[i].deletionCount >= 1
            /\ \E j, k \in DeleteCallsOfPass(i) :
                 j < k /\ ~log[j].ok /\ log[k].ok

\* C32: a pass whose listing failed issues no create or delete call; a Run
\* with a failed listing records an error and returns it, and it still
\* processes every pool entry.
C32_ListingFailureRecorded ==
    \A i \in Inst :
        LET log == hist[i].passLog
        IN  /\ (log # <<>> /\ ~log[1].ok) =>
                 /\ Len(log) = 1
                 /\ hist[i].passResult = "err"
            /\ (hist[i].startupOk /\ op[i].result # "none"
                   /\ hist[i].listFailedIn # {}) =>
                 /\ op[i].errors >= 1
                 /\ op[i].result = "err"
                 /\ hist[i].processed = DOMAIN poolList

\* The pool entries that an allow-list excludes: the pool is not in a
\* non-empty pool allow-list, or the sub-volume is not in a non-empty
\* sub-volume allow-list.
NotAllowedEntries ==
    { k \in DOMAIN poolList :
        \/ ~IsPoolAllowed(cfg, poolList[k].PoolName)
        \/ /\ poolList[k].FilesystemName # ""
           /\ ~IsFilesystemAllowed(cfg, poolList[k].FilesystemName) }

\* C33 as stated: for a pool entry that an allow-list excludes no listing,
\* create or delete call is issued and no error is recorded, even when its
\* pool is unhealthy: the errors of a Run are those of the unhealthy entries
\* that no allow-list excludes.
C33_NotAllowedNoCallNoError ==
    \A i \in Inst :
        /\ \A k \in NotAllowedEntries : poolList[k] \notin hist[i].touchedFs
        /\ (hist[i].startupOk /\ op[i].result # "none") =>
             op[i].errors = Cardinality(UnhealthyEntries \ NotAllowedEntries)

\* C33 amended: for a pool entry that an allow-list excludes no listing,
\* create or delete call is issued; no error is recorded for an entry whose
\* pool is not in the pool allow-list, even when the pool is unhealthy,
\* while an entry of an allowed unhealthy pool is recorded as an error
\* whether or not the sub-volume allow-list excludes it.
C33_NotAllowedNoCall ==
    \A i \in Inst :
        /\ \A k \in NotAllowedEntries : poolList[k] \notin hist[i].touchedFs
        /\ (hist[i].startupOk /\ op[i].result # "none") =>
             op[i].errors
               = Cardinality({ k \in DOMAIN poolList :
                                 /\ IsPoolAllowed(cfg, poolList[k].PoolName)
                                 /\ ~IsPoolHealthy(poolList[k].PoolName, zpoolStatus) })

\* A finished Run with the sub-volume allow-list {tank/data} and usb
\* degraded: nothing was called for usb/private, tank/data was processed,
\* and the entries of usb were recorded as errors.
C33_Witness ==
    \E i \in Inst :
        /\ op[i].pc = "done"
        /\ cfg.FilesystemWhitelist = {"tank/data"}
        /\ ~IsPoolHealthy("usb", zpoolStatus)
        /\ \E k \in NotAllowedEntries : poolList[k].FilesystemName = "usb/private"
        /\ hist[i].touchedFs = {PoolEntry("tank", "tank/data")}
        /\ op[i].errors = 2
        /\ op[i].result = "err"

\* The passes a Run owes: one per frequency for every entry whose pool is
\* allowed and healthy and whose sub-volume is allowed.
DuePasses ==
    { key \in (DOMAIN poolList) \X (DOMAIN Frequencies) :
        PoolVerdict(cfg, poolList[key[1]], zpoolStatus) = "process" }

EachTripleOnce ==
    \A i \in Inst :
        /\ hist[i].repeated = {}
        /\ hist[i].passes \subseteq DuePasses
        /\ (hist[i].startupOk /\ op[i].result # "none") => hist[i].passes = DuePasses

\* C34: every Run terminates, and a Run whose startup calls succeeded has
\* processed each (allowed healthy pool, allowed sub-volume, frequency)
\* exactly once when it returns, whatever calls of other passes failed.
C34_TerminatesEachTripleOnce ==
    /\ []EachTripleOnce
    /\ \A i \in Inst : Started(i) ~> (op[i].pc = "done")

\* A finished Run over two sub-volumes: ten passes, although a listing and
\* a create call failed on the way.
C34_Witness ==
    \E i \in Inst :
        /\ op[i].pc = "done"
        /\ Cardinality(hist[i].passes) = 10
        /\ hist[i].passes = DuePasses
        /\ hist[i].listFailedIn # {}
        /\ hist[i].createFailedIn # {}
        /\ \E key \in hist[i].listFailedIn \cup hist[i].createFailedIn :
             key[2] < Len(Frequencies)

\* C35: a Run whose GetVersion, GetPoolStatus or GetPools call failed
\* returns an error and has issued no listing, create or delete call.
C35_StartupFailureTouchesNothing ==
    \A i \in Inst :
        (hist[i].startups >= 1 /\ ~hist[i].startupOk) =>
          /\ Finished(i)
          /\ op[i].result = "err"
          /\ hist[i].passes = {}
          /\ hist[i].touchedFs = {}
          /\ hist[i].createCalls = 0
          /\ hist[i].deleteCalls = 0
          /\ hist[i].simCreates = 0 /\ hist[i].simDeletes = 0
          /\ datasets = hist[i].before

\* A Run over a sub-volume with snapshots to delete that returned an error
\* from its startup calls and left the snapshots as they were.
C35_Witness ==
    \E i \in Inst :
        /\ op[i].pc = "done"
        /\ op[i].result = "err"
        /\ hist[i].startups = 1
        /\ ~hist[i].startupOk
        /\ Cardinality(datasets) >= 2
        /\ \E k \in DOMAIN poolList :
             PoolVerdict(cfg, poolList[k], zpoolStatus) = "process"

\* C36: a Run that follows, at the same time, a Run in which every call
\* succeeded and the deletion budget was not reached issues no create call
\* and no delete call.
C36_SecondRunIssuesNothing ==
    \A i \in Inst :
        (hist[i].rerun /\ hist[i].cleanEarlier /\ Started(i)) =>
          /\ hist[i].createCalls = 0
          /\ hist[i].deleteCalls = 0
\* Whether the pass process i is in has classified dataset d for deletion:
\* d is in toDelete, or in the listing of a disabled frequency.
IsDeletionCandidate(i, d) ==
    \/ /\ op[i].pc \in {"create", "delete"}
       /\ \E k \in DOMAIN op[i].toDelete : DatasetOf(op[i].toDelete[k]) = d
    \/ /\ op[i].pc = "cleanup"
       /\ \E k \in DOMAIN op[i].snapshots : DatasetOf(op[i].snapshots[k]) = d

\* A Run that got past its startup has returned.
RunCompleted(i) == op[i].pc = "done" /\ hist[i].startupOk

\* C37: with a deletion budget of at least 1 and an unchanged current time,
\* if Runs that get past their startup keep on happening, then every
\* deletion candidate other than a snapshot whose delete call always fails
\* is eventually deleted.
C37_HeldSnapshotDoesNotBlockCleanup ==
    \A d \in RepeatCandidates :
        ([]<>RunCompleted(1)) =>
            ((d \in datasets \ held /\ IsDeletionCandidate(1, d)) ~> (d \notin datasets))

\* After repeated Runs with a budget of 1, the snapshot that cannot be
\* deleted is still there, its delete call has failed in this Run again,
\* and every other candidate is gone.
C37_Witness ==
    /\ cfg.MaxDeletionsPerRun = 1
    /\ GetMaxSnapshotsForFrequency(cfg, "hourly") # 0
    /\ held # {}
    /\ RepeatCandidates \cap datasets = held
    /\ op[1].pc = "done"
    /\ hist[1].again
    /\ hist[1].deleteFailures >= 1

====
